---------------------------- MODULE Spec2Model ----------------------------
(***************************************************************************)
(* A model of the redis-clone server: the keyspace (src/src/db.rs) with    *)
(* its expiration queue and background expiration task, the command layer  *)
(* (src/src/cmd.rs, src/src/server.rs handle_command), the accept loop and *)
(* the per-connection tasks (src/src/server.rs).                           *)
(*                                                                         *)
(* Time is the monotonic clock in milliseconds.  It advances in steps of   *)
(* DB_EXPIRATION_CHECK_INTERVAL, the period of the expiration task.        *)
(*                                                                         *)
(* Byte strings (Bytes, String) are sequences of one-character strings.    *)
(* Texts produced by the server's own format strings are sequences of      *)
(* tokens, one token per literal piece of the format string.               *)
(***************************************************************************)
EXTENDS Integers, Sequences, FiniteSets, TLC

(***************************************************************************)
(* Bounds of the model.                                                    *)
(***************************************************************************)
MaxTicks == 2          \* how many times the clock advances
MaxOps == 3            \* commands issued by the clients of the keyspace
IncrK == 2             \* K: INCR commands per client in the counter scenario
MaxSignals == 1        \* sends on the shutdown channel
MaxConns == 2          \* connections accepted in the shutdown scenario
MaxExtra == 1          \* connections beyond MAX_CLIENTS in the admission scenario
MaxReqs == 2           \* requests a client sends on its connection
MaxCmds == 3           \* commands executed in the command scenario
MaxOwnOps == 4         \* commands issued by the clients with a key of their own
MaxLockOps == 2        \* commands issued in the scenario of the two mutexes
MaxBurst == 2          \* connections beyond MAX_CLIENTS in the burst scenario

(***************************************************************************)
(* Program constants (src/src/constants.rs).                               *)
(***************************************************************************)
DB_EXPIRATION_CHECK_INTERVAL == 100
MAX_CLIENTS == 50

IncrN == 2             \* N: clients in the counter scenario

\* the tasks that call handle_command concurrently
DbClients == {1, 2}
IncrClients == 1..IncrN
Tasks == DbClients \cup IncrClients

\* the keys, values and durations (ms) the modelled clients use
KeyK == <<"k">>
KeyJ == <<"j">>
AllKeys == {KeyK, KeyJ}
DbKeys == {KeyK}
DbVals == {<<"a">>, <<"b">>}
DbDurations == {100, 200}

VARIABLES
    \* ---- the keyspace (struct DB) ----
    data,               \* HashMap<String, DBItem>
    expiration_queue,   \* BinaryHeap<ExpirationEntry>
    now,                \* Instant::now()
    \* ---- the expiration task ----
    reaperPc,           \* "sleep" (at interval.tick()) | "lockd" (queue popped)
    expired_keys,       \* its local `expired_keys`
    nextTick,           \* the instant of the interval's next tick
    expiration_chan,    \* messages waiting in the channel of expiration_sender
    \* ---- tasks calling handle_command ----
    cpc,                \* where each client's current command stands
    cloc,               \* the locals of the command in progress
    cres,               \* the last reply made: the task, its command, the frame
    nops,               \* commands completed so far
    \* ---- history, read by the properties only ----
    lastWrite,          \* per key: the last client command that targeted it
    sweepSets,          \* keys a SET has written since the sweep popped
    incrReplies,        \* the replies to INCR, in the order they were made
    \* ---- the server (struct RedisServer) and its tasks ----
    srvPc,              \* where run() stands
    client_count,       \* AtomicUsize of active clients
    sent,               \* messages sent so far on the shutdown broadcast channel
    mainRx,             \* run()'s shutdown_rx: Some(messages sent before it subscribed)
    spawned,            \* connection tasks spawned and not yet polled, by receiver
    serving,            \* connection tasks in their loop, by receiver
    accepted,           \* connections accepted so far
    handles,            \* JoinHandles in self.handles
    cur,                \* the connection the accept loop took last
    \* ---- one connection and its client ----
    reqs,               \* the frames the client sends on the connection
    toSend,             \* their bytes not sent yet
    wire,               \* bytes sent and not yet read by the server
    peerClosed,         \* the client has closed its side
    buffer,             \* Connection::buffer
    connPc,             \* where handle_client_connection stands
    request,            \* the frame read_frame returned last
    handled,            \* the frames read_frame has returned, in order
    written,            \* the frames given to write_frame, in order
    kvAtRead            \* the map and the queue when `request` was returned

dbvars == <<data, expiration_queue, now, reaperPc, expired_keys, nextTick,
            expiration_chan, cpc, cloc, cres, nops, lastWrite, sweepSets,
            incrReplies>>

srvvars == <<srvPc, client_count, sent, mainRx, spawned, serving, accepted,
             handles, cur>>

connvars == <<reqs, toSend, wire, peerClosed, buffer, connPc, request, handled,
              written, kvAtRead>>

vars == <<dbvars, srvvars, connvars>>

(***************************************************************************)
(* Option<T>: None is the empty set, Some(x) the singleton.                *)
(***************************************************************************)
None == {}
Some(x) == {x}
IsSome(o) == o # {}
Unwrap(o) == CHOOSE x \in o : TRUE

(***************************************************************************)
(* Frames (src/src/frame.rs) and the macros that build them.               *)
(***************************************************************************)
Simple(s) == [type |-> "Simple", val |-> s]
Error(s) == [type |-> "Error", val |-> s]
Integer(i) == [type |-> "Integer", val |-> i]
Bulk(b) == [type |-> "Bulk", val |-> b]
Null == [type |-> "Null", val |-> <<>>]
Array(fs) == [type |-> "Array", val |-> fs]
\* no reply yet
NoFrame == [type |-> "NoFrame", val |-> <<>>]

(***************************************************************************)
(* i64 and its decimal text.  An i64 is [neg, mag]: a sign and the decimal *)
(* digits of the magnitude without leading zeros (so i64::MAX is exact).   *)
(***************************************************************************)
DigitChars == <<"0", "1", "2", "3", "4", "5", "6", "7", "8", "9">>
DigitSet == {DigitChars[i] : i \in 1..10}
DigitVal(c) == (CHOOSE i \in 1..10 : DigitChars[i] = c) - 1

I64MaxMag == <<"9","2","2","3","3","7","2","0","3","6","8","5","4","7","7","5","8","0","7">>
I64MinMag == <<"9","2","2","3","3","7","2","0","3","6","8","5","4","7","7","5","8","0","8">>

RECURSIVE StripZeros(_)
StripZeros(s) ==
    IF Len(s) > 1 /\ s[1] = "0" THEN StripZeros(Tail(s)) ELSE s

RECURSIVE LexLeq(_, _)
LexLeq(a, b) ==
    IF a = <<>> THEN TRUE
    ELSE IF DigitVal(a[1]) < DigitVal(b[1]) THEN TRUE
    ELSE IF DigitVal(a[1]) > DigitVal(b[1]) THEN FALSE
    ELSE LexLeq(Tail(a), Tail(b))

\* a <= b for magnitudes without leading zeros
MagLeq(a, b) ==
    \/ Len(a) < Len(b)
    \/ Len(a) = Len(b) /\ LexLeq(a, b)

RECURSIVE MagInc(_)
MagInc(m) ==
    IF m = <<>> THEN <<"1">>
    ELSE LET last == m[Len(m)]
             init == SubSeq(m, 1, Len(m) - 1)
         IN  IF last = "9" THEN MagInc(init) \o <<"0">>
             ELSE Append(init, DigitChars[DigitVal(last) + 2])

RECURSIVE MagDec(_)
MagDec(m) ==
    LET last == m[Len(m)]
        init == SubSeq(m, 1, Len(m) - 1)
    IN  IF last = "0" THEN MagDec(init) \o <<"9">>
        ELSE StripZeros(Append(init, DigitChars[DigitVal(last)]))

RECURSIVE NatDigits(_)
NatDigits(n) ==
    IF n < 10 THEN <<DigitChars[n + 1]>>
    ELSE Append(NatDigits(n \div 10), DigitChars[(n % 10) + 1])

RECURSIVE DigitsNat(_)
DigitsNat(m) ==
    IF m = <<>> THEN 0
    ELSE 10 * DigitsNat(SubSeq(m, 1, Len(m) - 1)) + DigitVal(m[Len(m)])

\* the i64 of a small model integer
I64(n) == IF n < 0 THEN [neg |-> TRUE, mag |-> NatDigits(0 - n)]
          ELSE [neg |-> FALSE, mag |-> NatDigits(n)]

\* str::parse::<i64>: an optional sign, then one or more digits, in range
ParseI64(s) ==
    LET signed == Len(s) > 0 /\ s[1] \in {"+", "-"}
        neg == Len(s) > 0 /\ s[1] = "-"
        body == IF signed THEN Tail(s) ELSE s
    IN  IF s = <<>> THEN [ok |-> FALSE, err |-> <<"cannot parse integer from empty string">>]
        ELSE IF body = <<>> \/ \E i \in 1..Len(body) : body[i] \notin DigitSet
        THEN [ok |-> FALSE, err |-> <<"invalid digit found in string">>]
        ELSE LET mag == StripZeros(body)
             IN  IF neg /\ ~MagLeq(mag, I64MinMag)
                 THEN [ok |-> FALSE, err |-> <<"number too small to fit in target type">>]
                 ELSE IF ~neg /\ ~MagLeq(mag, I64MaxMag)
                 THEN [ok |-> FALSE, err |-> <<"number too large to fit in target type">>]
                 ELSE [ok |-> TRUE, val |-> [neg |-> neg /\ mag # <<"0">>, mag |-> mag]]

\* i64::checked_add(1): None on overflow
CheckedAdd1(n) ==
    IF ~n.neg
    THEN IF n.mag = I64MaxMag THEN None
         ELSE Some([neg |-> FALSE, mag |-> MagInc(n.mag)])
    ELSE LET m == MagDec(n.mag)
         IN  Some([neg |-> m # <<"0">>, mag |-> m])

\* i64::to_string
I64ToString(n) == IF n.neg THEN <<"-">> \o n.mag ELSE n.mag

\* a byte that is not valid UTF-8 on its own
NonUtf8Bytes == {"0xFF"}
\* std::str::from_utf8 succeeds
Utf8Ok(bytes) == \A i \in 1..Len(bytes) : bytes[i] \notin NonUtf8Bytes

(***************************************************************************)
(* The wire format: write_frame (src/src/connection.rs), is_parsable and   *)
(* parse (src/src/frame.rs).  A buffer is a sequence of bytes, a byte a    *)
(* string; a cursor is the buffer and a position counted from 0.  Results  *)
(* are [tag |-> "Ok", ...], [tag |-> "Err", err |-> RedisProtocolError] or *)
(* [tag |-> "Panic"] (an index out of range, an advance past the end).     *)
(***************************************************************************)
CR == "\r"
LF == "\n"
CRLF == <<CR, LF>>

NotEnoughData == [tag |-> "Err", err |-> <<"NotEnoughData">>]
ExcessiveNewline == [tag |-> "Err", err |-> <<"ExcessiveNewline">>]
ConversionError == [tag |-> "Err", err |-> <<"ConversionError">>]
UnsupportedFrame(byte) == [tag |-> "Err", err |-> <<"UnsupportedFrame", byte>>]
Panic == [tag |-> "Panic"]
OkAt(pos) == [tag |-> "Ok", pos |-> pos]

ByteAt(buf, pos) == buf[pos + 1]

\* String::from_utf8_lossy: an invalid byte becomes U+FFFD
FromUtf8Lossy(bytes) ==
    [i \in 1..Len(bytes) |-> IF bytes[i] \in NonUtf8Bytes THEN "U+FFFD" ELSE bytes[i]]

\* the digits at the head of a slice
RECURSIVE LeadingDigits(_)
LeadingDigits(s) ==
    IF s # <<>> /\ s[1] \in DigitSet THEN <<s[1]>> \o LeadingDigits(Tail(s)) ELSE <<>>

\* atoi::<i64>: an optional sign, then the digits at the head of the slice;
\* None when there is no digit (the numbers of the model have few digits)
AtoiI64(s) ==
    LET signed == s # <<>> /\ s[1] \in {"+", "-"}
        digits == LeadingDigits(IF signed THEN Tail(s) ELSE s)
    IN  IF digits = <<>> THEN None
        ELSE IF signed /\ s[1] = "-" THEN Some(0 - DigitsNat(digits))
        ELSE Some(DigitsNat(digits))

\* atoi::<usize>: as above, no negative number
AtoiUsize(s) ==
    LET n == AtoiI64(s)
    IN  IF IsSome(n) /\ Unwrap(n) < 0 THEN None ELSE n

\* get_byte_slice: &buffer[start..=end]
GetByteSlice(buf, start, end) ==
    IF start <= end + 1 /\ end < Len(buf)
    THEN [tag |-> "Ok", slice |-> SubSeq(buf, start + 1, end + 1)]
    ELSE Panic

\* seek_newline: the count of loop turns before the CRLF, the cursor after it
RECURSIVE SeekNewlineFrom(_, _, _)
SeekNewlineFrom(buf, pos, index) ==
    IF pos >= Len(buf) THEN NotEnoughData
    ELSE IF ByteAt(buf, pos) = CR /\ pos + 1 < Len(buf)
    THEN IF ByteAt(buf, pos + 1) = LF
         THEN [tag |-> "Ok", index |-> index, pos |-> pos + 2]
         ELSE SeekNewlineFrom(buf, pos + 2, index + 1)
    ELSE SeekNewlineFrom(buf, pos + 1, index + 1)

SeekNewline(buf, pos) == SeekNewlineFrom(buf, pos, 0)

\* has_crlf_with_checks
RECURSIVE HasCrlfWithChecks(_, _)
HasCrlfWithChecks(buf, pos) ==
    IF pos >= Len(buf) THEN NotEnoughData
    ELSE IF ByteAt(buf, pos) = CR
    THEN IF pos + 1 < Len(buf)
         THEN IF ByteAt(buf, pos + 1) = LF THEN OkAt(pos + 2) ELSE ExcessiveNewline
         ELSE NotEnoughData
    ELSE IF ByteAt(buf, pos) = LF /\ pos + 1 < Len(buf)
    THEN IF ByteAt(buf, pos + 1) # CR THEN ExcessiveNewline
         ELSE HasCrlfWithChecks(buf, pos + 2)
    ELSE HasCrlfWithChecks(buf, pos + 1)

\* is_crlf, called with a byte remaining
IsCrlf(buf, pos) ==
    IF ByteAt(buf, pos) = CR /\ pos + 1 < Len(buf)
    THEN [found |-> ByteAt(buf, pos + 1) = LF, pos |-> pos + 2]
    ELSE [found |-> FALSE, pos |-> pos + 1]

\* has_crlf: the cursor after the first CRLF
RECURSIVE HasCrlf(_, _)
HasCrlf(buf, pos) ==
    IF pos >= Len(buf) THEN NotEnoughData
    ELSE LET r == IsCrlf(buf, pos)
         IN  IF r.found THEN OkAt(r.pos) ELSE HasCrlf(buf, r.pos)

\* get_line: the bytes from start to the first CRLF, the cursor after it
GetLine(buf, start) ==
    LET r == HasCrlf(buf, start)
    IN  IF r.tag # "Ok" THEN r
        ELSE [tag |-> "Ok", line |-> SubSeq(buf, start + 1, r.pos - 2), pos |-> r.pos]

\* Frame::is_parsable, the cursor at pos
RECURSIVE IsParsable(_, _)
RECURSIVE IsParsableN(_, _, _)
IsParsable(buf, pos) ==
    IF pos >= Len(buf) THEN NotEnoughData
    ELSE LET byte == ByteAt(buf, pos)
             after == pos + 1
         IN  IF byte \in {"+", "-", ":", "_"} THEN HasCrlfWithChecks(buf, after)
             ELSE IF byte = "$"
             THEN LET s == SeekNewline(buf, after)
                  IN  IF s.tag # "Ok" THEN s
                      ELSE LET len_u8 == GetByteSlice(buf, 1, s.index)
                           IN  IF len_u8.tag # "Ok" THEN len_u8
                               ELSE LET len == AtoiI64(len_u8.slice)
                                    IN  IF len = None THEN ConversionError
                                        ELSE IF Unwrap(len) = -1 THEN OkAt(s.pos)
                                        ELSE HasCrlf(buf, s.pos)
             ELSE IF byte = "*"
             THEN LET s == SeekNewline(buf, after)
                  IN  IF s.tag # "Ok" THEN s
                      ELSE LET len_u8 == GetByteSlice(buf, after, after + s.index)
                           IN  IF len_u8.tag # "Ok" THEN len_u8
                               ELSE LET len == AtoiUsize(len_u8.slice)
                                    IN  IF len = None THEN ConversionError
                                        ELSE IsParsableN(buf, s.pos, Unwrap(len))
             ELSE UnsupportedFrame(byte)

\* for _ in 0..len { Frame::is_parsable(cursor)?; }
IsParsableN(buf, pos, n) ==
    IF n = 0 THEN OkAt(pos)
    ELSE LET r == IsParsable(buf, pos)
         IN  IF r.tag # "Ok" THEN r ELSE IsParsableN(buf, r.pos, n - 1)

OkFrame(frame, pos) == [tag |-> "Ok", frame |-> frame, pos |-> pos]

\* Frame::parse, the cursor at pos
RECURSIVE Parse(_, _)
RECURSIVE ParseN(_, _, _, _)
Parse(buf, pos) ==
    IF pos >= Len(buf) THEN Panic
    ELSE LET byte == ByteAt(buf, pos)
             start == pos + 1
         IN  IF byte = "_" THEN OkFrame(Null, start)
             ELSE IF byte \in {"+", "-"}
             THEN LET l == GetLine(buf, start)
                  IN  IF l.tag # "Ok" THEN l
                      ELSE OkFrame(Simple(FromUtf8Lossy(l.line)), l.pos)
             ELSE IF byte = ":"
             THEN LET l == GetLine(buf, start)
                  IN  IF l.tag # "Ok" THEN l
                      ELSE LET num == AtoiI64(l.line)
                           IN  IF num = None THEN ConversionError
                               ELSE OkFrame(Integer(I64(Unwrap(num))), l.pos)
             ELSE IF byte = "$"
             THEN LET s == SeekNewline(buf, start)
                  IN  IF s.tag # "Ok" THEN s
                      ELSE LET len_u8 == GetByteSlice(buf, start, start + s.index)
                           IN  IF len_u8.tag # "Ok" THEN len_u8
                               ELSE LET len == AtoiI64(len_u8.slice)
                                    IN  IF len = None THEN ConversionError
                                        ELSE IF Unwrap(len) = -1 THEN OkFrame(Null, s.pos)
                                        ELSE IF Unwrap(len) < 0 THEN Panic
                                        ELSE LET n == Unwrap(len)
                                                 bytes == GetByteSlice(buf, s.pos, s.pos + n - 1)
                                             IN  IF bytes.tag # "Ok" THEN bytes
                                                 ELSE IF s.pos + n + 2 > Len(buf) THEN Panic
                                                 ELSE OkFrame(Bulk(bytes.slice), s.pos + n + 2)
             ELSE IF byte = "*"
             THEN LET s == SeekNewline(buf, start)
                  IN  IF s.tag # "Ok" THEN s
                      ELSE LET len_u8 == GetByteSlice(buf, start, start + s.index)
                           IN  IF len_u8.tag # "Ok" THEN len_u8
                               ELSE LET len == AtoiUsize(len_u8.slice)
                                    IN  IF len = None THEN ConversionError
                                        ELSE ParseN(buf, s.pos, Unwrap(len), <<>>)
             ELSE UnsupportedFrame(byte)

\* for _ in 0..len { frames.push(Frame::parse(cursor)?); }
ParseN(buf, pos, n, frames) ==
    IF n = 0 THEN OkFrame(Array(frames), pos)
    ELSE LET r == Parse(buf, pos)
         IN  IF r.tag # "Ok" THEN r
             ELSE ParseN(buf, r.pos, n - 1, Append(frames, r.frame))

\* Connection::parse_frame on the read buffer: the frame if there is one,
\* and what is left of the buffer after advance(frame_len)
ParseFrame(buf) ==
    LET probe == IsParsable(buf, 0)
    IN  IF probe.tag = "Ok"
        THEN LET frame_len == probe.pos
                 r == Parse(buf, 0)
             IN  IF r.tag # "Ok" THEN r
                 ELSE [tag |-> "Ok", frame |-> Some(r.frame),
                       buffer |-> SubSeq(buf, frame_len + 1, Len(buf))]
        ELSE IF probe = NotEnoughData
        THEN [tag |-> "Ok", frame |-> None, buffer |-> buf]
        ELSE probe

\* Connection::write_value, Connection::write_frame: the bytes written
RECURSIVE WriteValue(_)
RECURSIVE WriteValues(_)
WriteValue(frame) ==
    CASE frame.type = "Simple" -> <<"+">> \o frame.val \o CRLF
      [] frame.type = "Error" -> <<"-">> \o frame.val \o CRLF
      [] frame.type = "Integer" -> <<":">> \o I64ToString(frame.val) \o CRLF
      [] frame.type = "Bulk" ->
            <<"$">> \o NatDigits(Len(frame.val)) \o CRLF \o frame.val \o CRLF
      [] frame.type = "Null" -> <<"$", "-", "1">> \o CRLF
      [] frame.type = "Array" ->
            <<"*">> \o NatDigits(Len(frame.val)) \o CRLF \o WriteValues(frame.val)

WriteValues(frames) ==
    IF frames = <<>> THEN <<>>
    ELSE WriteValue(frames[1]) \o WriteValues(Tail(frames))

WriteFrame(frame) == WriteValue(frame)

(***************************************************************************)
(* Commands (src/src/cmd.rs, enum Command), all of one record shape.       *)
(***************************************************************************)
NoCommand ==
    [name |-> "None", key |-> <<>>, val |-> <<>>, expiration |-> None,
     keys |-> <<>>, seconds |-> 0, msg |-> None, frames |-> <<>>]
CmdGet(k) == [NoCommand EXCEPT !.name = "Get", !.key = k]
CmdSet(k, v, e) ==
    [NoCommand EXCEPT !.name = "Set", !.key = k, !.val = v, !.expiration = e]
CmdPing(m) == [NoCommand EXCEPT !.name = "Ping", !.msg = m]
CmdDel(ks) == [NoCommand EXCEPT !.name = "Del", !.keys = ks]
CmdExists(ks) == [NoCommand EXCEPT !.name = "Exists", !.keys = ks]
CmdIncrement(k) == [NoCommand EXCEPT !.name = "Increment", !.key = k]
CmdKeys(p) == [NoCommand EXCEPT !.name = "Keys", !.key = p]
CmdFlushDB == [NoCommand EXCEPT !.name = "FlushDB"]
CmdDBSize == [NoCommand EXCEPT !.name = "DBSize"]
CmdUnknown(c) == [NoCommand EXCEPT !.name = "Unknown", !.key = c]
CmdLolwut(fs) == [NoCommand EXCEPT !.name = "Lolwut", !.frames = fs]
CmdExpire(k, s) == [NoCommand EXCEPT !.name = "Expire", !.key = k, !.seconds = s]
CmdTTL(k) == [NoCommand EXCEPT !.name = "TTL", !.key = k]

\* Duration::from_secs, Duration::from_millis, Duration::as_secs (in ms)
FromSecs(s) == s * 1000
FromMillis(ms) == ms
AsSecs(d) == d \div 1000

(***************************************************************************)
(* Command::from_frame (src/src/cmd.rs).  A String is the sequence of its  *)
(* bytes; the result is [ok |-> TRUE, cmd] or [ok |-> FALSE, err], err the *)
(* text that Display gives the RedisCommandError (src/src/err.rs).         *)
(***************************************************************************)
LowerChars == <<"a", "b", "c", "d", "e", "f", "g", "h", "i", "j", "k", "l", "m",
                "n", "o", "p", "q", "r", "s", "t", "u", "v", "w", "x", "y", "z">>
UpperChars == <<"A", "B", "C", "D", "E", "F", "G", "H", "I", "J", "K", "L", "M",
                "N", "O", "P", "Q", "R", "S", "T", "U", "V", "W", "X", "Y", "Z">>

\* str::to_uppercase
ToUppercase(s) ==
    [i \in 1..Len(s) |->
        IF \E j \in 1..26 : LowerChars[j] = s[i]
        THEN UpperChars[CHOOSE j \in 1..26 : LowerChars[j] = s[i]]
        ELSE s[i]]

U64MaxMag == <<"1","8","4","4","6","7","4","4","0","7","3","7","0","9","5","5","1","6","1","5">>

\* str::parse::<u64>: an optional "+", then one or more digits, in range
\* (the numbers of the model have few digits)
ParseU64(s) ==
    LET body == IF s # <<>> /\ s[1] = "+" THEN Tail(s) ELSE s
    IN  IF body = <<>> \/ \E i \in 1..Len(body) : body[i] \notin DigitSet
        THEN [ok |-> FALSE]
        ELSE IF ~MagLeq(StripZeros(body), U64MaxMag) THEN [ok |-> FALSE]
        ELSE [ok |-> TRUE, val |-> DigitsNat(StripZeros(body))]

CmdOk(cmd) == [ok |-> TRUE, cmd |-> cmd]
CmdErr(text) == [ok |-> FALSE, err |-> text]

\* enum RedisCommandError, as displayed
InvalidCommand(s) == <<"Invalid or unimplemented command: ">> \o s
InvalidFrame(s) == <<"Invalid frame format: ", s>>
InvalidUtf8 == <<"Invalid UTF-8 in command: ", "invalid utf-8 sequence">>
WrongNumberOfArguments(command, expected, actual) ==
    <<command, " expects ", expected, " arguments, got ">> \o NatDigits(actual)
NotImplemented(s) == <<"Not implemented error: ", s>>
\* the two variants that cmd.rs names and err.rs does not list: the name of
\* the variant stands for its text
ParseDecimalError(s) == <<"ParseDecimalError: ">> \o s
ParseIntegerError(s) == <<"ParseIntegerError: ", s>>

\* common::bytes_to_string
BytesToString(bytes) ==
    IF Utf8Ok(bytes) THEN [ok |-> TRUE, val |-> bytes] ELSE CmdErr(InvalidUtf8)

\* Command::bulk_to_string
BulkToString(frame) ==
    IF frame.type = "Bulk" THEN BytesToString(frame.val)
    ELSE CmdErr(InvalidFrame("Expected bulk string"))

\* Command::bulk_to_bytes
BulkToBytes(frame) ==
    IF frame.type = "Bulk" THEN [ok |-> TRUE, val |-> frame.val]
    ELSE CmdErr(InvalidFrame("Expected bulk string"))

\* Command::bulk_to_u64
BulkToU64(frame) ==
    IF frame.type = "Bulk"
    THEN LET s == BytesToString(frame.val)
         IN  IF ~s.ok THEN s
             ELSE IF ParseU64(s.val).ok THEN [ok |-> TRUE, val |-> ParseU64(s.val).val]
             ELSE CmdErr(ParseIntegerError("Invalid u64"))
    ELSE CmdErr(InvalidFrame("Expected bulk string"))

\* parts.into_iter().map(Self::bulk_to_string).collect::<Result<Vec<_>, _>>()
RECURSIVE BulksToStrings(_)
BulksToStrings(parts) ==
    IF parts = <<>> THEN [ok |-> TRUE, val |-> <<>>]
    ELSE LET head == BulkToString(parts[1])
         IN  IF ~head.ok THEN head
             ELSE LET rest == BulksToStrings(Tail(parts))
                  IN  IF ~rest.ok THEN rest
                      ELSE [ok |-> TRUE, val |-> <<head.val>> \o rest.val]

\* the arm of a command that takes one key
OneKey(name, parts, Cmd(_)) ==
    IF Len(parts) # 1 THEN CmdErr(WrongNumberOfArguments(name, "1", Len(parts)))
    ELSE LET key == BulkToString(parts[1])
         IN  IF ~key.ok THEN key ELSE CmdOk(Cmd(key.val))

\* the "SET" arm
FromFrameSet(parts) ==
    IF Len(parts) < 2 THEN CmdErr(WrongNumberOfArguments("SET", "2 or 4", Len(parts)))
    ELSE LET key == BulkToString(parts[1])
             val == BulkToBytes(parts[2])
         IN  IF ~key.ok THEN key
             ELSE IF ~val.ok THEN val
             ELSE IF Len(parts) = 2 THEN CmdOk(CmdSet(key.val, val.val, None))
             ELSE IF Len(parts) - 2 # 2
             THEN CmdErr(WrongNumberOfArguments("SET", "2 or 4", Len(parts) - 2))
             ELSE LET expiration == BulkToString(parts[3])
                      n == BulkToU64(parts[4])
                  IN  IF ~expiration.ok THEN expiration
                      ELSE IF ToUppercase(expiration.val) = <<"P", "X">>
                      THEN IF ~n.ok THEN n
                           ELSE CmdOk(CmdSet(key.val, val.val, Some(FromMillis(n.val))))
                      ELSE IF ToUppercase(expiration.val) = <<"E", "X">>
                      THEN IF ~n.ok THEN n
                           ELSE CmdOk(CmdSet(key.val, val.val, Some(FromSecs(n.val))))
                      ELSE CmdErr(NotImplemented("Expected EX <seconds> or PX <milliseconds>"))

\* the "EXPIRE" arm
FromFrameExpire(parts) ==
    IF Len(parts) # 2 THEN CmdErr(WrongNumberOfArguments("EXPIRE", "2", Len(parts)))
    ELSE LET key == BulkToString(parts[1])
             seconds == BulkToString(parts[2])
         IN  IF ~key.ok THEN key
             ELSE IF ~seconds.ok THEN seconds
             ELSE IF ~ParseU64(seconds.val).ok
             THEN CmdErr(ParseDecimalError(<<"Invalid seconds: ">> \o seconds.val))
             ELSE CmdOk(CmdExpire(key.val, ParseU64(seconds.val).val))

\* the arm of a command that takes one key or more
ManyKeys(name, parts, Cmd(_)) ==
    IF parts = <<>> THEN CmdErr(WrongNumberOfArguments(name, ">0", Len(parts)))
    ELSE LET keys == BulksToStrings(parts)
         IN  IF ~keys.ok THEN keys ELSE CmdOk(Cmd(keys.val))

\* the arm of a command without argument
NoArgument(name, parts, cmd) ==
    IF parts = <<>> THEN CmdOk(cmd)
    ELSE CmdErr(WrongNumberOfArguments(name, "0", Len(parts)))

\* the arms of `match command.to_uppercase().as_str()`
FromFrameArray(command, name, parts) ==
    CASE name = <<"G", "E", "T">> -> OneKey("GET", parts, CmdGet)
      [] name = <<"S", "E", "T">> -> FromFrameSet(parts)
      [] name = <<"P", "I", "N", "G">> ->
            IF parts = <<>> THEN CmdOk(CmdPing(None))
            ELSE IF Len(parts) = 1
            THEN LET msg == BulkToString(parts[1])
                 IN  IF ~msg.ok THEN msg ELSE CmdOk(CmdPing(Some(msg.val)))
            ELSE CmdErr(WrongNumberOfArguments("PING", "0 or 1", Len(parts)))
      [] name = <<"I", "N", "C", "R">> -> OneKey("INCR", parts, CmdIncrement)
      [] name = <<"F", "L", "U", "S", "H", "D", "B">> ->
            NoArgument("FLUSHDB", parts, CmdFlushDB)
      [] name = <<"D", "B", "S", "I", "Z", "E">> -> NoArgument("DBSIZE", parts, CmdDBSize)
      [] name = <<"D", "E", "L">> -> ManyKeys("DEL", parts, CmdDel)
      [] name = <<"E", "X", "I", "S", "T", "S">> -> ManyKeys("EXISTS", parts, CmdExists)
      [] name = <<"K", "E", "Y", "S">> ->
            IF parts = <<>> THEN CmdErr(WrongNumberOfArguments("KEYS", "1", Len(parts)))
            ELSE LET pattern == BulkToString(parts[1])
                 IN  IF ~pattern.ok THEN pattern ELSE CmdOk(CmdKeys(pattern.val))
      [] name = <<"L", "O", "L", "W", "U", "T">> ->
            IF parts = <<>> THEN CmdErr(WrongNumberOfArguments("LOLWUT", "1", Len(parts)))
            ELSE CmdOk(CmdLolwut(parts))
      [] name = <<"E", "X", "P", "I", "R", "E">> -> FromFrameExpire(parts)
      [] name = <<"T", "T", "L">> -> OneKey("TTL", parts, CmdTTL)
      [] OTHER -> CmdOk(CmdUnknown(command))

\* Command::from_frame
FromFrame(frame) ==
    IF frame.type = "Array"
    THEN IF frame.val = <<>> THEN CmdErr(InvalidCommand(<<"Empty command">>))
         ELSE LET command == BulkToString(frame.val[1])
              IN  IF ~command.ok THEN command
                  ELSE FromFrameArray(command.val, ToUppercase(command.val),
                                      Tail(frame.val))
    ELSE IF frame.type = "Simple" /\ ToUppercase(frame.val) = <<"P", "I", "N", "G">>
    THEN CmdOk(CmdPing(None))
    ELSE CmdErr(InvalidFrame("Expected array frame"))

(***************************************************************************)
(* The keyspace operations of src/src/db.rs, as functions of the map, the  *)
(* queue and the instant read by the operation.                            *)
(***************************************************************************)
DBItem(value, expiration) == [value |-> value, expiration |-> expiration]
ExpirationEntry(key, t) == [key |-> key, expiration_time |-> t]

\* HashMap::insert, HashMap::remove
MapInsert(d, key, item) ==
    [x \in DOMAIN d \cup {key} |-> IF x = key THEN item ELSE d[x]]
MapRemove(d, key) == [x \in DOMAIN d \ {key} |-> d[x]]
EmptyMap == [x \in {} |-> NoFrame]

\* BinaryHeap::push.  The heap is kept as the set of its entries: two equal
\* entries are told apart by no operation (push, peek/pop while <= now,
\* retain by key).
QueuePush(q, key, t) == q \cup {ExpirationEntry(key, t)}

\* an entry is visible at instant t
NotExpired(item, t) ==
    item.expiration = None \/ t < Unwrap(item.expiration)

\* DB::get
DbGet(d, key, t) ==
    IF key \in DOMAIN d /\ NotExpired(d[key], t)
    THEN Some(d[key].value)
    ELSE None

\* DB::exists looking at the map only, whatever the deadline
DbExistsPresent(d, key, t) == key \in DOMAIN d

\* DB::exists
DbExists(d, key, t) == IsSome(DbGet(d, key, t))

\* DB::set, once `expiration_time` has been computed
\* DB::set on a map that keeps the last key only
DbSetDataLastKeyOnly(d, key, value, expiration_time) ==
    MapInsert(EmptyMap, key, DBItem(value, expiration_time))

DbSetData(d, key, value, expiration_time) ==
    MapInsert(d, key, DBItem(value, expiration_time))
DbSetQueue(q, key, expiration_time) ==
    IF IsSome(expiration_time)
    THEN QueuePush(q, key, Unwrap(expiration_time))
    ELSE q

\* DB::expire
DbExpireOk(d, key) == key \in DOMAIN d
DbExpireData(d, key, duration, t) ==
    IF key \in DOMAIN d
    THEN [d EXCEPT ![key].expiration = Some(t + duration)]
    ELSE d
DbExpireQueue(d, q, key, duration, t) ==
    IF key \in DOMAIN d THEN QueuePush(q, key, t + duration) ELSE q

\* DB::remove reporting a value whether or not the map held the key
DbRemoveValueAlways(d, key) ==
    Some(IF key \in DOMAIN d THEN d[key].value ELSE <<>>)

\* DB::remove: the map part and the queue part
DbRemoveValue(d, key) ==
    IF key \in DOMAIN d THEN Some(d[key].value) ELSE None
DbRemoveQueue(q, key) == {e \in q : e.key # key}

\* DB::size
DbSize(d) == Cardinality(DOMAIN d)

\* DB::flush
DbFlushData(d) == EmptyMap
DbFlushQueue(q) == q

\* glob::Pattern::new: the position of a `[` that opens no character class
\* (a class is [c...] or [!c...] with at least one specifier; the specifiers
\* of the modelled patterns are single characters), or -1
RECURSIVE GlobErrorFrom(_, _)
GlobErrorFrom(p, i) ==
    IF i > Len(p) THEN -1
    ELSE IF p[i] # "[" THEN GlobErrorFrom(p, i + 1)
    ELSE LET first == IF i + 1 <= Len(p) /\ p[i + 1] = "!" THEN i + 3 ELSE i + 2
             closes == {j \in first..Len(p) : p[j] = "]"}
         IN  IF closes = {} THEN i - 1
             ELSE GlobErrorFrom(p, (CHOOSE j \in closes : \A x \in closes : j <= x) + 1)

GlobError(p) == GlobErrorFrom(p, 1)

\* glob::Pattern::matches on a pattern that Pattern::new accepted: `?` is any
\* character, `*` any sequence of characters, [..] and [!..] a character class
RECURSIVE GlobMatches(_, _)
GlobMatches(p, str) ==
    IF p = <<>> THEN str = <<>>
    ELSE IF p[1] = "*"
    THEN GlobMatches(Tail(p), str) \/ (str # <<>> /\ GlobMatches(p, Tail(str)))
    ELSE IF p[1] = "?"
    THEN str # <<>> /\ GlobMatches(Tail(p), Tail(str))
    ELSE IF p[1] = "["
    THEN LET negated == p[2] = "!"
             first == IF negated THEN 4 ELSE 3
             close == CHOOSE j \in first..Len(p) :
                          p[j] = "]" /\ \A x \in first..(j - 1) : p[x] # "]"
             class == {p[x] : x \in (first - 1)..(close - 1)}
         IN  /\ str # <<>>
             /\ (str[1] \in class) # negated
             /\ GlobMatches(SubSeq(p, close + 1, Len(p)), Tail(str))
    ELSE str # <<>> /\ str[1] = p[1] /\ GlobMatches(Tail(p), Tail(str))

\* DB::keys: every key of the map that matches, or the error of Pattern::new
DbKeysMatching(d, pattern) ==
    IF GlobError(pattern) >= 0
    THEN [ok |-> FALSE, val |-> {},
          err |-> <<"Pattern syntax error near position ">>
                  \o NatDigits(GlobError(pattern)) \o <<": invalid range pattern">>]
    ELSE [ok |-> TRUE, val |-> {key \in DOMAIN d : GlobMatches(pattern, key)},
          err |-> <<>>]

\* DB::increment with the new value computed but not stored in the map
DbIncrementNotStored(d, key, t) ==
    LET d1 == IF key \in DOMAIN d THEN d
              ELSE MapInsert(d, key, DBItem(<<"0">>, None))
        parsed == ParseI64(d1[key].value)
    IN  IF parsed.ok /\ CheckedAdd1(parsed.val) # None
        THEN [data |-> d1, ok |-> TRUE,
              val |-> I64ToString(Unwrap(CheckedAdd1(parsed.val)))]
        ELSE [data |-> d1, ok |-> FALSE, val |-> <<"Integer overflow">>]

\* DB::increment writing back a fresh item: the deadline is lost
DbIncrementDeadlineDropped(d, key, t) ==
    LET d1 == IF key \in DOMAIN d THEN d
              ELSE MapInsert(d, key, DBItem(<<"0">>, None))
        item == d1[key]
        parsed == ParseI64(item.value)
    IN  IF IsSome(item.expiration) /\ t >= Unwrap(item.expiration)
        THEN [data |-> MapRemove(d1, key), ok |-> FALSE,
              val |-> <<"Key has expired">>]
        ELSE IF ~Utf8Ok(item.value) \/ ~parsed.ok
        THEN [data |-> d1, ok |-> FALSE, val |-> <<"invalid digit found in string">>]
        ELSE IF CheckedAdd1(parsed.val) = None
        THEN [data |-> d1, ok |-> FALSE, val |-> <<"Integer overflow">>]
        ELSE [data |-> MapInsert(d1, key,
                                 DBItem(I64ToString(Unwrap(CheckedAdd1(parsed.val))),
                                        None)),
              ok |-> TRUE,
              val |-> I64ToString(Unwrap(CheckedAdd1(parsed.val)))]

\* DB::increment failing on an expired entry without removing it
DbIncrementExpiredKept(d, key, t) ==
    LET d1 == IF key \in DOMAIN d THEN d
              ELSE MapInsert(d, key, DBItem(<<"0">>, None))
        item == d1[key]
        parsed == ParseI64(item.value)
    IN  IF IsSome(item.expiration) /\ t >= Unwrap(item.expiration)
        THEN [data |-> d1, ok |-> FALSE, val |-> <<"Key has expired">>]
        ELSE IF ~Utf8Ok(item.value) \/ ~parsed.ok
        THEN [data |-> d1, ok |-> FALSE, val |-> <<"invalid digit found in string">>]
        ELSE IF CheckedAdd1(parsed.val) = None
        THEN [data |-> d1, ok |-> FALSE, val |-> <<"Integer overflow">>]
        ELSE [data |-> [d1 EXCEPT ![key].value =
                            I64ToString(Unwrap(CheckedAdd1(parsed.val)))],
              ok |-> TRUE,
              val |-> I64ToString(Unwrap(CheckedAdd1(parsed.val)))]

\* DB::increment: the new map and Ok(bytes) or Err(message)
DbIncrement(d, key, t) ==
    LET d1 == IF key \in DOMAIN d THEN d
              ELSE MapInsert(d, key, DBItem(<<"0">>, None))
        item == d1[key]
    IN  IF IsSome(item.expiration) /\ t >= Unwrap(item.expiration)
        THEN [data |-> MapRemove(d1, key), ok |-> FALSE,
              val |-> <<"Key has expired">>]
        ELSE IF ~Utf8Ok(item.value)
        THEN [data |-> d1, ok |-> FALSE, val |-> <<"invalid utf-8 sequence">>]
        ELSE LET parsed == ParseI64(item.value)
             IN  IF ~parsed.ok
                 THEN [data |-> d1, ok |-> FALSE, val |-> parsed.err]
                 ELSE LET sum == CheckedAdd1(parsed.val)
                      IN  IF sum = None
                          THEN [data |-> d1, ok |-> FALSE,
                                val |-> <<"Integer overflow">>]
                          ELSE [data |-> [d1 EXCEPT ![key].value =
                                              I64ToString(Unwrap(sum))],
                                ok |-> TRUE,
                                val |-> I64ToString(Unwrap(sum))]

\* DB::ttl: Err(()) is [ok |-> FALSE]; Ok(o) carries Option<Duration>
DbTtl(d, key, t) ==
    IF key \notin DOMAIN d THEN [ok |-> FALSE, val |-> None]
    ELSE IF IsSome(d[key].expiration) /\ t < Unwrap(d[key].expiration)
    THEN [ok |-> TRUE, val |-> Some(Unwrap(d[key].expiration) - t)]
    ELSE [ok |-> TRUE, val |-> None]

(***************************************************************************)
(* RedisServer::handle_command: the reply to each command.                 *)
(***************************************************************************)
ReplyGet(d, key, t) ==
    IF IsSome(DbGet(d, key, t)) THEN Bulk(Unwrap(DbGet(d, key, t))) ELSE Null

\* the reply to INCR with the error of DB::increment answered as 0
ReplyIncrementErrorAsZero(r) ==
    IF r.ok /\ ParseI64(r.val).ok THEN Integer(ParseI64(r.val).val)
    ELSE Integer(I64(0))

ReplyIncrement(r) ==
    IF r.ok
    THEN IF ParseI64(r.val).ok THEN Integer(ParseI64(r.val).val)
         ELSE Error(<<"ERR ", "value is not an integer or out of range">>)
    ELSE Error(<<"ERR ">> \o r.val)

ReplyExpire(d, key) == IF DbExpireOk(d, key) THEN Integer(I64(1)) ELSE Integer(I64(0))

ReplyTTL(d, key, t) ==
    LET ttl == DbTtl(d, key, t)
    IN  IF ttl.ok
        THEN IF IsSome(ttl.val) THEN Integer(I64(AsSecs(Unwrap(ttl.val))))
             ELSE Integer(I64(-1))
        ELSE Integer(I64(-2))

\* the orders in which the iteration of a HashMap can yield the keys
Orders(keys) ==
    {o \in [1..Cardinality(keys) -> keys] :
        \A i, j \in 1..Cardinality(keys) : i # j => o[i] # o[j]}

ReplyKeys(d, pattern, order) ==
    IF DbKeysMatching(d, pattern).ok
    THEN Array([i \in 1..Len(order) |-> Bulk(order[i])])
    ELSE Error(<<"ERR ">> \o DbKeysMatching(d, pattern).err)

ReplyPing(msg) == IF IsSome(msg) THEN Simple(Unwrap(msg)) ELSE Simple(<<"PONG">>)

ReplyUnknown(cmd) ==
    Error(<<"ERR ", "Invalid or unimplemented command: ">> \o cmd)

\* frames.remove(0), then Frame::append
ReplyLolwut(frames) ==
    IF frames[1].type = "Array"
    THEN Array(Append(frames[1].val,
                      Simple(<<"https://youtu.be/dQw4w9WgXcQ?si=9GzI0HV44IG4_rPi">>)))
    ELSE Error(<<"ERR ", "Cannot append to a non-Array Frame">>)


(***************************************************************************)
(* What the properties remember of the last client command on a key.       *)
(***************************************************************************)
NoWrite == [kind |-> "none", val |-> <<>>, deadline |-> None]
SetWrite(v, d) == [kind |-> "set", val |-> v, deadline |-> d]
OtherWrite == [kind |-> "other", val |-> <<>>, deadline |-> None]
ExpireWrite(d) == [kind |-> "expire", val |-> <<>>, deadline |-> d]

\* what a command that takes the locks more than once saw when it began
Snapshot == [data |-> data, now |-> now, reaperPc |-> reaperPc,
             nextTick |-> nextTick]
NoSnapshot == [data |-> EmptyMap, now |-> 0, reaperPc |-> "sleep", nextTick |-> 0]

NoLocals == [cmd |-> NoCommand, expiration_time |-> None, i |-> 0,
             count |-> 0, removed |-> FALSE, start |-> NoSnapshot]

NoReply == [task |-> 0, cmd |-> NoCommand, frame |-> NoFrame]

\* the reply is handed back to the connection task
Done(c, cmd, reply) ==
    /\ cpc' = [cpc EXCEPT ![c] = "idle"]
    /\ cloc' = [cloc EXCEPT ![c] = NoLocals]
    /\ cres' = [task |-> c, cmd |-> cmd, frame |-> reply]
    /\ nops' = nops + 1

(***************************************************************************)
(* handle_command, one action per command and per step of a command that   *)
(* takes the locks more than once.                                         *)
(***************************************************************************)
\* Command::Get
Get(c, key) ==
    /\ cpc[c] = "idle"
    /\ Done(c, CmdGet(key), ReplyGet(data, key, now))
    /\ UNCHANGED <<data, expiration_queue, now, reaperPc, expired_keys,
                   nextTick, expiration_chan, lastWrite, sweepSets, incrReplies,
                   srvvars, connvars>>

\* Command::Set, DB::set up to the lock: `expiration_time` is computed
SetBegin(c, key, value, duration) ==
    /\ cpc[c] = "idle"
    /\ cpc' = [cpc EXCEPT ![c] = "set"]
    /\ cloc' = [cloc EXCEPT ![c] =
                   [NoLocals EXCEPT !.cmd = CmdSet(key, value, duration),
                                    !.expiration_time =
                                        IF IsSome(duration)
                                        THEN Some(now + Unwrap(duration))
                                        ELSE None]]
    /\ UNCHANGED <<data, expiration_queue, now, reaperPc, expired_keys,
                   nextTick, expiration_chan, cres, nops, lastWrite, sweepSets, incrReplies,
                   srvvars, connvars>>

\* DB::set under the locks: insert into the map, push on the queue
SetCommit(c) ==
    /\ cpc[c] = "set"
    /\ LET key == cloc[c].cmd.key
           value == cloc[c].cmd.val
           expiration_time == cloc[c].expiration_time
       IN  /\ data' = DbSetData(data, key, value, expiration_time)
           /\ expiration_queue' = DbSetQueue(expiration_queue, key, expiration_time)
           /\ lastWrite' = [lastWrite EXCEPT ![key] = SetWrite(value, expiration_time)]
           /\ sweepSets' = IF reaperPc = "lockd" THEN sweepSets \cup {key}
                           ELSE sweepSets
    /\ Done(c, cloc[c].cmd, Simple(<<"OK">>))
    /\ UNCHANGED <<now, reaperPc, expired_keys, nextTick, expiration_chan, incrReplies,
                   srvvars, connvars>>

\* DB::remove, first lock: the key leaves the map
RemoveData(c, keys, i, count) ==
    /\ data' = MapRemove(data, keys[i])
    /\ cpc' = [cpc EXCEPT ![c] = "remove_queue"]
    /\ cloc' = [cloc EXCEPT ![c] =
                   [NoLocals EXCEPT !.cmd = CmdDel(keys), !.i = i, !.count = count,
                                    !.removed = IsSome(DbRemoveValue(data, keys[i])),
                                    !.start = IF i = 1 THEN Snapshot
                                              ELSE cloc[c].start]]
    /\ lastWrite' = [lastWrite EXCEPT ![keys[i]] = OtherWrite]
    /\ UNCHANGED <<expiration_queue, now, reaperPc, expired_keys, nextTick, expiration_chan,
                   cres, nops, sweepSets, incrReplies,
                   srvvars, connvars>>

\* Command::Del, first key
Del(c, keys) ==
    /\ cpc[c] = "idle"
    /\ RemoveData(c, keys, 1, 0)

\* Command::Del, a later key
DelNext(c) ==
    /\ cpc[c] = "remove_data"
    /\ RemoveData(c, cloc[c].cmd.keys, cloc[c].i, cloc[c].count)

\* DB::remove, second lock: the key's entries leave the queue
RemoveQueue(c) ==
    /\ cpc[c] = "remove_queue"
    /\ expiration_queue' = DbRemoveQueue(expiration_queue, cloc[c].cmd.keys[cloc[c].i])
    /\ LET count == cloc[c].count + (IF cloc[c].removed THEN 1 ELSE 0)
       IN  IF cloc[c].i < Len(cloc[c].cmd.keys)
           THEN /\ cpc' = [cpc EXCEPT ![c] = "remove_data"]
                /\ cloc' = [cloc EXCEPT ![c].i = @ + 1, ![c].count = count,
                                        ![c].removed = FALSE]
                /\ UNCHANGED <<cres, nops, expiration_chan,
                   srvvars, connvars>>
           ELSE Done(c, cloc[c].cmd, Integer(I64(count)))
    /\ UNCHANGED <<data, now, reaperPc, expired_keys, nextTick, expiration_chan, lastWrite,
                   sweepSets, incrReplies,
                   srvvars, connvars>>

\* Command::Exists: DB::exists on the key at index i
ExistsStep(c, keys, i, count) ==
    /\ LET n == count + (IF DbExists(data, keys[i], now) THEN 1 ELSE 0)
       IN  IF i < Len(keys)
           THEN /\ cpc' = [cpc EXCEPT ![c] = "exists"]
                /\ cloc' = [cloc EXCEPT ![c] =
                               [NoLocals EXCEPT !.cmd = CmdExists(keys),
                                                !.i = i + 1, !.count = n,
                                                !.start = IF i = 1 THEN Snapshot
                                                          ELSE cloc[c].start]]
                /\ UNCHANGED <<cres, nops, expiration_chan,
                   srvvars, connvars>>
           ELSE Done(c, CmdExists(keys), Integer(I64(n)))
    /\ UNCHANGED <<data, expiration_queue, now, reaperPc, expired_keys,
                   nextTick, expiration_chan, lastWrite, sweepSets, incrReplies,
                   srvvars, connvars>>

Exists(c, keys) ==
    /\ cpc[c] = "idle"
    /\ ExistsStep(c, keys, 1, 0)

ExistsNext(c) ==
    /\ cpc[c] = "exists"
    /\ ExistsStep(c, cloc[c].cmd.keys, cloc[c].i, cloc[c].count)

\* Command::Increment.  `record` says whether the history keeps the reply.
Increment(c, key, record) ==
    /\ cpc[c] = "idle"
    /\ LET r == DbIncrement(data, key, now)
       IN  /\ data' = r.data
           /\ Done(c, CmdIncrement(key), ReplyIncrement(r))
           /\ incrReplies' =
                  IF record
                  THEN Append(incrReplies, [task |-> c, frame |-> ReplyIncrement(r)])
                  ELSE incrReplies
    /\ lastWrite' = [lastWrite EXCEPT ![key] = OtherWrite]
    /\ UNCHANGED <<expiration_queue, now, reaperPc, expired_keys, nextTick, expiration_chan,
                   sweepSets,
                   srvvars, connvars>>

\* Command::FlushDB
FlushDB(c) ==
    /\ cpc[c] = "idle"
    /\ data' = DbFlushData(data)
    /\ expiration_queue' = DbFlushQueue(expiration_queue)
    /\ Done(c, CmdFlushDB, Simple(<<"OK">>))
    /\ lastWrite' = [k \in AllKeys |-> OtherWrite]
    /\ UNCHANGED <<now, reaperPc, expired_keys, nextTick, expiration_chan, sweepSets, incrReplies,
                   srvvars, connvars>>

\* Command::DBSize
DBSize(c) ==
    /\ cpc[c] = "idle"
    /\ Done(c, CmdDBSize, Integer(I64(DbSize(data))))
    /\ UNCHANGED <<data, expiration_queue, now, reaperPc, expired_keys,
                   nextTick, expiration_chan, lastWrite, sweepSets, incrReplies,
                   srvvars, connvars>>

\* Command::Expire
Expire(c, key, seconds) ==
    /\ cpc[c] = "idle"
    /\ data' = DbExpireData(data, key, FromSecs(seconds), now)
    /\ expiration_queue' =
           DbExpireQueue(data, expiration_queue, key, FromSecs(seconds), now)
    /\ Done(c, CmdExpire(key, seconds), ReplyExpire(data, key))
    /\ lastWrite' = [lastWrite EXCEPT ![key] =
                         IF DbExpireOk(data, key)
                         THEN ExpireWrite(Some(now + FromSecs(seconds)))
                         ELSE OtherWrite]
    /\ UNCHANGED <<now, reaperPc, expired_keys, nextTick, expiration_chan, sweepSets, incrReplies,
                   srvvars, connvars>>

\* Command::TTL
TTL(c, key) ==
    /\ cpc[c] = "idle"
    /\ Done(c, CmdTTL(key), ReplyTTL(data, key, now))
    /\ UNCHANGED <<data, expiration_queue, now, reaperPc, expired_keys,
                   nextTick, expiration_chan, lastWrite, sweepSets, incrReplies,
                   srvvars, connvars>>

\* Command::Keys
Keys(c, pattern) ==
    /\ cpc[c] = "idle"
    /\ \E order \in Orders(DbKeysMatching(data, pattern).val) :
           Done(c, CmdKeys(pattern), ReplyKeys(data, pattern, order))
    /\ UNCHANGED <<data, expiration_queue, now, reaperPc, expired_keys,
                   nextTick, expiration_chan, lastWrite, sweepSets, incrReplies,
                   srvvars, connvars>>

\* Command::Ping
Ping(c, msg) ==
    /\ cpc[c] = "idle"
    /\ Done(c, CmdPing(msg), ReplyPing(msg))
    /\ UNCHANGED <<data, expiration_queue, now, reaperPc, expired_keys,
                   nextTick, expiration_chan, lastWrite, sweepSets, incrReplies,
                   srvvars, connvars>>

\* Command::Unknown
Unknown(c, cmd) ==
    /\ cpc[c] = "idle"
    /\ Done(c, CmdUnknown(cmd), ReplyUnknown(cmd))
    /\ UNCHANGED <<data, expiration_queue, now, reaperPc, expired_keys,
                   nextTick, expiration_chan, lastWrite, sweepSets, incrReplies,
                   srvvars, connvars>>

\* Command::Lolwut
Lolwut(c, frames) ==
    /\ cpc[c] = "idle"
    /\ Done(c, CmdLolwut(frames), ReplyLolwut(frames))
    /\ UNCHANGED <<data, expiration_queue, now, reaperPc, expired_keys,
                   nextTick, expiration_chan, lastWrite, sweepSets, incrReplies,
                   srvvars, connvars>>

(***************************************************************************)
(* The expiration task (DB::start_expiration_task).                        *)
(***************************************************************************)
\* the entries the sweep pops: those at the top of the heap while <= now
ExpiredEntries(q, t) == {e \in q : e.expiration_time <= t}

\* interval.tick() fires; under the queue lock the expired entries are popped
ReaperPop ==
    /\ reaperPc = "sleep"
    /\ now >= nextTick
    /\ expiration_chan = 0
    /\ nextTick' = now + DB_EXPIRATION_CHECK_INTERVAL
    /\ expired_keys' = {e.key : e \in ExpiredEntries(expiration_queue, now)}
    /\ expiration_queue' = expiration_queue \ ExpiredEntries(expiration_queue, now)
    /\ reaperPc' = "lockd"
    /\ sweepSets' = {}
    /\ UNCHANGED <<data, now, cpc, cloc, cres, nops, lastWrite, incrReplies, expiration_chan,
                   srvvars, connvars>>

\* interval.tick() fires and receiver.try_recv() finds the signal to stop
ReaperStop ==
    /\ reaperPc = "sleep"
    /\ now >= nextTick
    /\ expiration_chan > 0
    /\ expiration_chan' = expiration_chan - 1
    /\ reaperPc' = "stopped"
    /\ UNCHANGED <<data, expiration_queue, now, expired_keys, nextTick, cpc,
                   cloc, cres, nops, lastWrite, sweepSets, incrReplies,
                   srvvars, connvars>>

\* the keys the sweep removes from the map
SweepRemoves(d, popped) == DOMAIN d \cap popped

\* under the map lock the popped keys are removed
ReaperRemove ==
    /\ reaperPc = "lockd"
    /\ data' = [x \in DOMAIN data \ SweepRemoves(data, expired_keys) |-> data[x]]
    /\ expired_keys' = {}
    /\ reaperPc' = "sleep"
    /\ UNCHANGED <<expiration_queue, now, nextTick, expiration_chan, cpc, cloc, cres, nops,
                   lastWrite, sweepSets, incrReplies,
                   srvvars, connvars>>

\* The clock advances by one period of the expiration task, once the sweep
\* of the current period has been made.
Tick ==
    /\ now < MaxTicks * DB_EXPIRATION_CHECK_INTERVAL
    /\ \/ reaperPc = "sleep" /\ nextTick > now
       \/ reaperPc = "stopped"
    /\ now' = now + DB_EXPIRATION_CHECK_INTERVAL
    /\ UNCHANGED <<data, expiration_queue, reaperPc, expired_keys, nextTick, expiration_chan,
                   cpc, cloc, cres, nops, lastWrite, sweepSets, incrReplies,
                   srvvars, connvars>>

(***************************************************************************)
(* The server (src/server.rs).  Connection tasks are counted by the state  *)
(* they are in and by their broadcast receiver: a receiver created when r  *)
(* messages had been sent has a message to receive once sent > r.          *)
(***************************************************************************)
Receivers == 0 .. MaxSignals

NoTasks == [r \in Receivers |-> 0]

RECURSIVE CountUpTo(_, _)
CountUpTo(f, r) == IF r < 0 THEN 0 ELSE f[r] + CountUpTo(f, r - 1)

\* the tasks counted in f
Count(f) == CountUpTo(f, MaxSignals)

\* connections that were accepted, given a task, and are still open
OpenConnections == Count(spawned) + Count(serving)

\* self.shutdown.subscribe(): the receiver sees the messages sent from now on
Subscribe == sent

\* shutdown_rx.recv() is ready: a message was sent after rx subscribed
\* (an Err(Lagged) completes the branch of the select as well)
RecvReady(rx) == rx < sent

\* the test of the accept loop on the counter it has loaded
MaxClientsReachedStrict(count) == count > MAX_CLIENTS

MaxClientsReached(count) == count >= MAX_CLIENTS

MaxClientsFrame == Error(<<"max number of clients reached">>)

\* what is known of the connection the accept loop took last: open_full
\* tells whether MAX_CLIENTS accepted connections were open at the accept,
\* count_full whether the counter read MAX_CLIENTS or more
NoConn == [open_full |-> FALSE, count_full |-> FALSE, served |-> FALSE,
           out |-> <<>>, closed |-> FALSE]

kvvars == <<data, expiration_queue, now, reaperPc, expired_keys, nextTick,
            cpc, cloc, cres, nops, lastWrite, sweepSets, incrReplies>>

\* RedisServer::new: the receiver of broadcast::channel(1) is dropped
InitSrv ==
    /\ srvPc = "new"
    /\ client_count = 0
    /\ sent = 0
    /\ mainRx = None
    /\ spawned = NoTasks
    /\ serving = NoTasks
    /\ accepted = 0
    /\ handles = 0
    /\ cur = NoConn

\* shutdown_handle.send(()): by a holder of get_shutdown_handle(), or by the
\* Ctrl+C task
Signal ==
    /\ sent < MaxSignals
    /\ sent' = sent + 1
    /\ UNCHANGED <<srvPc, client_count, mainRx, spawned, serving, accepted,
                   handles, cur, dbvars, connvars>>

\* run() up to its loop: subscribe, spawn the Ctrl+C task
Run ==
    /\ srvPc = "new"
    /\ mainRx' = Some(Subscribe)
    /\ handles' = handles + 1
    /\ srvPc' = "select"
    /\ UNCHANGED <<client_count, sent, spawned, serving, accepted, cur, dbvars, connvars>>

\* the accept branch of the select, the counter below MAX_CLIENTS: the
\* connection gets a receiver and a task
AcceptSpawn(limit) ==
    /\ srvPc = "select"
    /\ accepted < limit
    /\ ~MaxClientsReached(client_count)
    /\ accepted' = accepted + 1
    /\ spawned' = [spawned EXCEPT ![Subscribe] = @ + 1]
    /\ handles' = handles + 1
    /\ cur' = [NoConn EXCEPT !.open_full = (OpenConnections >= MAX_CLIENTS),
                             !.count_full = (client_count >= MAX_CLIENTS),
                             !.served = TRUE]
    /\ UNCHANGED <<srvPc, client_count, sent, mainRx, serving, dbvars, connvars>>

\* the accept branch of the select, the counter at MAX_CLIENTS
AcceptReject(limit) ==
    /\ srvPc = "select"
    /\ accepted < limit
    /\ MaxClientsReached(client_count)
    /\ accepted' = accepted + 1
    /\ cur' = [NoConn EXCEPT !.open_full = (OpenConnections >= MAX_CLIENTS),
                             !.count_full = (client_count >= MAX_CLIENTS)]
    /\ srvPc' = "reject_write"
    /\ UNCHANGED <<client_count, sent, mainRx, spawned, serving, handles, dbvars, connvars>>

\* connection.write_frame(&frame).await?
RejectWrite(ok) ==
    /\ srvPc = "reject_write"
    /\ IF ok
         THEN /\ cur' = [cur EXCEPT !.out = Append(@, MaxClientsFrame)]
              /\ srvPc' = "reject_shutdown"
         ELSE /\ cur' = [cur EXCEPT !.closed = TRUE]
              /\ srvPc' = "failed"
    /\ UNCHANGED <<client_count, sent, mainRx, spawned, serving, accepted,
                   handles, dbvars, connvars>>

\* connection.shutdown().await?; continue
RejectShutdown(ok) ==
    /\ srvPc = "reject_shutdown"
    /\ cur' = [cur EXCEPT !.closed = TRUE]
    /\ srvPc' = IF ok THEN "select" ELSE "failed"
    /\ UNCHANGED <<client_count, sent, mainRx, spawned, serving, accepted,
                   handles, dbvars, connvars>>

\* the shutdown branch of the select: break
LeaveLoop ==
    /\ srvPc = "select"
    /\ RecvReady(Unwrap(mainRx))
    /\ srvPc' = "db_shutdown"
    /\ UNCHANGED <<client_count, sent, mainRx, spawned, serving, accepted,
                   handles, cur, dbvars, connvars>>

\* RedisServer::shutdown without the call of DB::shutdown
DbShutdownNotCalled ==
    /\ srvPc = "db_shutdown"
    /\ srvPc' = "drain"
    /\ UNCHANGED <<client_count, sent, mainRx, spawned, serving, accepted,
                   handles, cur, kvvars, expiration_chan, connvars>>

\* RedisServer::shutdown, its first statement: DB::shutdown sends to the
\* expiration task
DbShutdown ==
    /\ srvPc = "db_shutdown"
    /\ expiration_chan' = expiration_chan + 1
    /\ srvPc' = "drain"
    /\ UNCHANGED <<client_count, sent, mainRx, spawned, serving, accepted,
                   handles, cur, kvvars, connvars>>

\* one handle of self.handles.drain(..): joined, or given up after
\* SERVER_SHUTDOWN_CONNECTION_TIMEOUT
DrainHandle ==
    /\ srvPc = "drain"
    /\ handles > 0
    /\ handles' = handles - 1
    /\ UNCHANGED <<srvPc, client_count, sent, mainRx, spawned, serving,
                   accepted, cur, dbvars, connvars>>

\* run() returns Ok(())
RunReturn ==
    /\ srvPc = "drain"
    /\ handles = 0
    /\ srvPc' = "returned"
    /\ UNCHANGED <<client_count, sent, mainRx, spawned, serving, accepted,
                   handles, cur, dbvars, connvars>>

\* handle_client_connection is polled first: ClientGuard::new
TaskStart(r) ==
    /\ spawned[r] > 0
    /\ spawned' = [spawned EXCEPT ![r] = @ - 1]
    /\ serving' = [serving EXCEPT ![r] = @ + 1]
    /\ client_count' = client_count + 1
    /\ UNCHANGED <<srvPc, sent, mainRx, accepted, handles, cur, dbvars, connvars>>

\* the task leaves its loop (end of stream, idle timeout, error of the read
\* or of the write): the guard is dropped
TaskExit(r) ==
    /\ serving[r] > 0
    /\ serving' = [serving EXCEPT ![r] = @ - 1]
    /\ client_count' = client_count - 1
    /\ UNCHANGED <<srvPc, sent, mainRx, spawned, accepted, handles, cur, dbvars, connvars>>

\* the shutdown branch of the task's select, leaving the loop without the
\* guard being dropped
TaskShutdownCounterKept(r) ==
    /\ serving[r] > 0
    /\ RecvReady(r)
    /\ serving' = [serving EXCEPT ![r] = @ - 1]
    /\ UNCHANGED <<client_count, srvPc, sent, mainRx, spawned, accepted, handles,
                   cur, dbvars, connvars>>

\* the shutdown branch of the task's select: break Ok(())
TaskShutdown(r) ==
    /\ serving[r] > 0
    /\ RecvReady(r)
    /\ serving' = [serving EXCEPT ![r] = @ - 1]
    /\ client_count' = client_count - 1
    /\ UNCHANGED <<srvPc, sent, mainRx, spawned, accepted, handles, cur, dbvars, connvars>>

(***************************************************************************)
(* One connection task (handle_client_connection) and its client.  The     *)
(* client sends the encoding of the frames of `reqs`, in pieces.           *)
(***************************************************************************)
\* the task of the modelled connection
ConnTask == 1

\* a request as clients build it: an array of bulk strings
Request(parts) == Array([i \in 1..Len(parts) |-> Bulk(parts[i])])

GetK == Request(<<<<"G", "E", "T">>, KeyK>>)

\* requests that the command layer accepts
GoodRequests ==
    << GetK,
       Request(<<<<"S", "E", "T">>, KeyK, <<"a">>>>),
       Request(<<<<"s", "e", "t">>, KeyK, <<"b">>, <<"p", "x">>, <<"1", "0", "0">>>>),
       Request(<<<<"P", "I", "N", "G">>>>),
       Request(<<<<"I", "N", "C", "R">>, KeyK>>),
       Request(<<<<"D", "E", "L">>, KeyK>>),
       Request(<<<<"E", "X", "I", "S", "T", "S">>, KeyK>>),
       Request(<<<<"F", "L", "U", "S", "H", "D", "B">>>>),
       Request(<<<<"D", "B", "S", "I", "Z", "E">>>>),
       Request(<<<<"E", "X", "P", "I", "R", "E">>, KeyK, <<"0">>>>),
       Request(<<<<"T", "T", "L">>, KeyK>>),
       Array(<<Bulk(<<"L", "O", "L", "W", "U", "T">>), Array(<<>>)>>),
       Array(<<Bulk(<<"L", "O", "L", "W", "U", "T">>), Array(<<Bulk(<<"a">>)>>),
               Integer(I64(7))>>),
       Request(<<<<"L", "O", "L", "W", "U", "T">>, <<"a">>>>) >>

\* requests that fail in the command layer: unknown command, wrong number
\* of arguments, not an array, invalid UTF-8, not an integer, unknown option
FailingRequests ==
    << Request(<<<<"X">>>>),
       Request(<<<<"G", "E", "T">>>>),
       Simple(<<"H", "I">>),
       Request(<<<<"0xFF">>>>),
       Request(<<<<"E", "X", "P", "I", "R", "E">>, KeyK, <<"x">>>>),
       Request(<<<<"S", "E", "T">>, KeyK, <<"a">>, <<"Z", "Z">>, <<"1">>>>) >>

\* requests with a CRLF in a bulk string
CrlfRequests ==
    << Request(<<<<"X", CR, LF, "Y">>>>),
       Request(<<<<"S", "E", "T">>, KeyK, <<CR, LF, "+", "P", "I", "N", "G">>>>) >>

ConnRequests == GoodRequests \o FailingRequests \o CrlfRequests

\* what a client sends on its connection: a request, then n GET requests
RequestStream(r, n) == <<ConnRequests[r]>> \o [i \in 1..n |-> GetK]

\* the bytes of a sequence of frames
RECURSIVE WriteFrames(_)
WriteFrames(frames) ==
    IF frames = <<>> THEN <<>>
    ELSE WriteFrame(frames[1]) \o WriteFrames(Tail(frames))

\* no connection is modelled
InitConn ==
    /\ reqs = <<>>
    /\ toSend = <<>>
    /\ wire = <<>>
    /\ peerClosed = FALSE
    /\ buffer = <<>>
    /\ connPc = "none"
    /\ request = NoFrame
    /\ handled = <<>>
    /\ written = <<>>
    /\ kvAtRead = <<EmptyMap, {}>>

\* a client has connected and its task has started: Connection::new, the
\* task at its first read_frame
InitConnServed ==
    /\ \E r \in 1..Len(ConnRequests), n \in 0..(MaxReqs - 1) :
            reqs = RequestStream(r, n)
    /\ toSend = WriteFrames(reqs)
    /\ wire = <<>>
    /\ peerClosed = FALSE
    /\ buffer = <<>>
    /\ connPc = "parse"
    /\ request = NoFrame
    /\ handled = <<>>
    /\ written = <<>>
    /\ kvAtRead = <<EmptyMap, {}>>

\* the server of that connection: run() at its select, one task serving
InitSrvServing ==
    /\ srvPc = "select"
    /\ client_count = 1
    /\ sent = 0
    /\ mainRx = Some(0)
    /\ spawned = NoTasks
    /\ serving = [NoTasks EXCEPT ![0] = 1]
    /\ accepted = 1
    /\ handles = 2
    /\ cur = [NoConn EXCEPT !.served = TRUE]

\* the client writes the next n bytes
ClientSend(n) ==
    /\ n \in 1..Len(toSend)
    /\ wire' = wire \o SubSeq(toSend, 1, n)
    /\ toSend' = SubSeq(toSend, n + 1, Len(toSend))
    /\ UNCHANGED <<reqs, peerClosed, buffer, connPc, request, handled, written,
                   kvAtRead, dbvars, srvvars>>

\* the client, having sent everything, closes its side
ClientClose ==
    /\ connPc # "none"
    /\ toSend = <<>>
    /\ ~peerClosed
    /\ peerClosed' = TRUE
    /\ UNCHANGED <<reqs, toSend, wire, buffer, connPc, request, handled, written,
                   kvAtRead, dbvars, srvvars>>

\* read_frame: self.parse_frame()?
ConnParse ==
    /\ connPc = "parse"
    /\ LET r == ParseFrame(buffer)
       IN  IF r.tag = "Panic"
           THEN /\ connPc' = "panic"
                /\ UNCHANGED <<buffer, request, handled, kvAtRead, cres>>
           ELSE IF r.tag = "Err"
           THEN /\ connPc' = "read_error"
                /\ UNCHANGED <<buffer, request, handled, kvAtRead, cres>>
           ELSE IF r.frame = None
           THEN /\ connPc' = "recv"
                /\ UNCHANGED <<buffer, request, handled, kvAtRead, cres>>
           ELSE /\ connPc' = "frame"
                /\ buffer' = r.buffer
                /\ request' = Unwrap(r.frame)
                /\ handled' = Append(handled, Unwrap(r.frame))
                /\ kvAtRead' = <<data, expiration_queue>>
                /\ cres' = NoReply
    /\ UNCHANGED <<reqs, toSend, wire, peerClosed, written, data,
                   expiration_queue, now, reaperPc, expired_keys, nextTick,
                   expiration_chan, cpc, cloc, nops, lastWrite, sweepSets,
                   incrReplies, srvvars>>

\* read_frame taking every end of stream for a clean one
ConnRecvEofAlwaysClean ==
    /\ connPc = "recv"
    /\ IF wire # <<>>
       THEN /\ buffer' = buffer \o wire
            /\ wire' = <<>>
            /\ connPc' = "parse"
       ELSE /\ peerClosed
            /\ connPc' = "closed"
            /\ UNCHANGED <<buffer, wire>>
    /\ UNCHANGED <<reqs, toSend, peerClosed, request, handled, written, kvAtRead,
                   dbvars, srvvars>>

\* timeout(TIMEOUT_DURATION, conn.read_frame()) elapses while read_buf is
\* pending: break Ok(())
ConnTimeout ==
    /\ connPc = "recv"
    /\ wire = <<>>
    /\ ~peerClosed
    /\ connPc' = "timed_out"
    /\ UNCHANGED <<reqs, toSend, wire, peerClosed, buffer, request, handled,
                   written, kvAtRead, dbvars, srvvars>>

\* read_frame: self.stream.read_buf(&mut self.buffer), and the end of stream
ConnRecv ==
    /\ connPc = "recv"
    /\ IF wire # <<>>
       THEN /\ buffer' = buffer \o wire
            /\ wire' = <<>>
            /\ connPc' = "parse"
       ELSE /\ peerClosed
            /\ connPc' = IF buffer = <<>> THEN "closed" ELSE "read_error"
            /\ UNCHANGED <<buffer, wire>>
    /\ UNCHANGED <<reqs, toSend, peerClosed, request, handled, written, kvAtRead,
                   dbvars, srvvars>>

\* error!(format!("ERR {}", e))
ErrorReply(e) == Error(<<"ERR ">> \o e)

\* the task holds a frame and has no response yet
Responding ==
    /\ connPc = "frame"
    /\ cres = NoReply
    /\ cpc[ConnTask] = "idle"

\* Command::from_frame(frame) is Err(e)
FromFrameError ==
    /\ Responding
    /\ ~FromFrame(request).ok
    /\ cres' = [task |-> ConnTask, cmd |-> NoCommand,
                frame |-> ErrorReply(FromFrame(request).err)]
    /\ UNCHANGED <<reqs, toSend, wire, peerClosed, buffer, connPc, request,
                   handled, written, kvAtRead, data, expiration_queue, now,
                   reaperPc, expired_keys, nextTick, expiration_chan, cpc, cloc,
                   nops, lastWrite, sweepSets, incrReplies, srvvars>>

\* Command::from_frame(frame) is Ok(command), of the variant `name`
Executing(name) ==
    /\ Responding
    /\ FromFrame(request).ok
    /\ FromFrame(request).cmd.name = name

\* the command being executed
TheCommand == FromFrame(request).cmd

\* conn.write_frame(&response): written; or it fails, the peer being gone
ConnWrite(ok) ==
    /\ connPc = "frame"
    /\ cres # NoReply
    /\ cpc[ConnTask] = "idle"
    /\ IF ok
       THEN /\ written' = Append(written, cres.frame)
            /\ connPc' = "parse"
       ELSE /\ peerClosed
            /\ connPc' = "write_error"
            /\ UNCHANGED written
    /\ UNCHANGED <<reqs, toSend, wire, peerClosed, buffer, request, handled,
                   kvAtRead, dbvars, srvvars>>

(***************************************************************************)
(* The keyspace under concurrent clients: DB::new, then commands on one    *)
(* key from two tasks, the expiration task and the clock.                  *)
(***************************************************************************)
InitDb ==
    /\ data = EmptyMap
    /\ expiration_queue = {}
    /\ now = 0
    /\ reaperPc = "sleep"
    /\ expired_keys = {}
    /\ nextTick = 0
    /\ expiration_chan = 0
    /\ cpc = [c \in Tasks |-> "idle"]
    /\ cloc = [c \in Tasks |-> NoLocals]
    /\ cres = NoReply
    /\ nops = 0
    /\ lastWrite = [k \in AllKeys |-> NoWrite]
    /\ sweepSets = {}
    /\ incrReplies = <<>>

Init == InitDb /\ InitSrv /\ InitConn

Next ==
    \/ \E c \in DbClients, key \in DbKeys :
        /\ nops + Cardinality({t \in Tasks : cpc[t] # "idle"}) < MaxOps
        /\ \/ Get(c, key)
           \/ \E v \in DbVals, d \in {None} \cup {Some(x) : x \in DbDurations} :
                 SetBegin(c, key, v, d)
           \/ Del(c, <<key>>)
           \/ Exists(c, <<key>>)
           \/ FlushDB(c)
           \/ Expire(c, key, 0)
           \/ TTL(c, key)
    \/ \E c \in DbClients : SetCommit(c)
    \/ \E c \in DbClients : RemoveQueue(c)
    \/ ReaperPop
    \/ ReaperRemove
    \/ Tick

Spec == Init /\ [][Next]_vars


(***************************************************************************)
(* The counter scenario (tests/client_server.rs, concurrent_increment):    *)
(* IncrN clients, each issuing IncrK INCR commands on the same key, which  *)
(* is absent at the start; the expiration task and the clock run too.      *)
(***************************************************************************)
IncrsOf(c) == Cardinality({i \in 1..Len(incrReplies) : incrReplies[i].task = c})

NextIncr ==
    \/ \E c \in IncrClients :
        /\ IncrsOf(c) < IncrK
        /\ Increment(c, KeyK, TRUE)
    \/ ReaperPop
    \/ ReaperRemove
    \/ Tick

SpecIncr == Init /\ [][NextIncr]_vars

AllIncrsDone == \A c \in IncrClients : IncrsOf(c) = IncrK

\* C1: when IncrN clients have each completed IncrK INCR commands on one
\* key that was absent, the key holds IncrN * IncrK and the replies are the
\* integers 1 .. IncrN * IncrK, each exactly once.
C1_IncrIsLinearizableCounter ==
    AllIncrsDone =>
        /\ Len(incrReplies) = IncrN * IncrK
        /\ ReplyGet(data, KeyK, now) = Bulk(NatDigits(IncrN * IncrK))
        /\ \A i \in 1..Len(incrReplies) : incrReplies[i].frame.type = "Integer"
        /\ \A n \in 1..(IncrN * IncrK) :
               Cardinality({i \in 1..Len(incrReplies) :
                               incrReplies[i].frame = Integer(I64(n))}) = 1

C1_Witness ==
    /\ AllIncrsDone
    /\ \E i, j \in 1..Len(incrReplies) :
          i < j /\ incrReplies[i].task > incrReplies[j].task

(***************************************************************************)
(* Properties of the keyspace under concurrent clients (Spec).             *)
(***************************************************************************)
\* C2: while the last client command on k is a completed SET k v with a
\* time-to-live, GET k replies v before the deadline of that SET and Null
\* once the deadline and one period of the expiration task have passed.
C2_SetWithTtlVisibleUntilDeadline ==
    \A k \in AllKeys :
        (lastWrite[k].kind = "set" /\ IsSome(lastWrite[k].deadline)) =>
            /\ now < Unwrap(lastWrite[k].deadline)
                  => ReplyGet(data, k, now) = Bulk(lastWrite[k].val)
            /\ now > Unwrap(lastWrite[k].deadline) + DB_EXPIRATION_CHECK_INTERVAL
                  => ReplyGet(data, k, now) = Null

\* C3: while the last client command on k is a completed SET k v without
\* EX/PX, TTL k replies -1 and GET k replies v.
C3_SetWithoutTtlClearsDeadline ==
    \A k \in AllKeys :
        (lastWrite[k].kind = "set" /\ lastWrite[k].deadline = None) =>
            /\ ReplyTTL(data, k, now) = Integer(I64(-1))
            /\ ReplyGet(data, k, now) = Bulk(lastWrite[k].val)

\* C4: operations are atomic on the pair (map, queue): a sweep that popped
\* its keys before a SET completed does not remove the key that SET wrote,
\* and a remove whose map part ran before a SET completed does not drop the
\* queue entry that SET pushed.
C4_SweepKeepsLaterSet ==
    (reaperPc = "lockd" /\ reaperPc' = "sleep") =>
        \A k \in sweepSets \cap DOMAIN data : k \in DOMAIN data'

C4_RemoveKeepsLaterSet ==
    \A c \in Tasks :
        (cpc[c] = "remove_queue" /\ cpc'[c] # "remove_queue") =>
            LET k == cloc[c].cmd.keys[cloc[c].i]
            IN  lastWrite[k].kind = "set" =>
                    \A e \in expiration_queue :
                        (e.key = k /\ Some(e.expiration_time) = lastWrite[k].deadline)
                            => e \in expiration_queue'

C4_OperationsAtomic ==
    [][C4_SweepKeepsLaterSet /\ C4_RemoveKeepsLaterSet]_vars

\* C5: an entry whose deadline has passed is treated by GET, EXISTS and TTL
\* like an absent key, reaped or not: Null, not counted, -2.
C5_ExpiredEntryIsAbsent ==
    \A k \in DOMAIN data :
        (IsSome(data[k].expiration) /\ now >= Unwrap(data[k].expiration)) =>
            /\ ReplyGet(data, k, now) = Null
            /\ ~DbExists(data, k, now)
            /\ ReplyTTL(data, k, now) = Integer(I64(-2))



(***************************************************************************)
(* Admission: a server that is run, MAX_CLIENTS + MaxExtra connections     *)
(* arriving, their tasks starting and ending in any order.                 *)
(***************************************************************************)
NextAdmission ==
    \/ Run
    \/ AcceptSpawn(MAX_CLIENTS + MaxExtra)
    \/ AcceptReject(MAX_CLIENTS + MaxExtra)
    \/ \E ok \in BOOLEAN : RejectWrite(ok)
    \/ \E ok \in BOOLEAN : RejectShutdown(ok)
    \/ \E r \in Receivers : TaskStart(r)
    \/ \E r \in Receivers : TaskExit(r)

SpecAdmission == Init /\ [][NextAdmission]_vars

(***************************************************************************)
(* Shutdown: the signal sent at any moment from the construction of the    *)
(* server on, MaxConns connections, the expiration task and the clock.     *)
(***************************************************************************)
NextShutdown ==
    \/ Signal
    \/ Run
    \/ AcceptSpawn(MaxConns)
    \/ LeaveLoop
    \/ DbShutdown
    \/ DrainHandle
    \/ RunReturn
    \/ \E r \in Receivers : TaskStart(r)
    \/ \E r \in Receivers : TaskExit(r)
    \/ \E r \in Receivers : TaskShutdown(r)
    \/ ReaperPop
    \/ ReaperRemove
    \/ ReaperStop
    \/ Tick

SpecShutdown == Init /\ [][NextShutdown]_vars

\* what the accept loop does with a connection it does not serve: no task,
\* no frame but the one Error frame, the connection closed in the end
NotServed ==
    /\ ~cur.served
    /\ Len(cur.out) <= 1
    /\ \A i \in 1..Len(cur.out) : cur.out[i] = MaxClientsFrame
    /\ srvPc = "select" => (cur.out = <<MaxClientsFrame>> /\ cur.closed)
    /\ srvPc = "failed" => cur.closed

\* C6 (as stated): a connection accepted while MAX_CLIENTS accepted
\* connections are still open is not served; it gets the one Error frame
\* "max number of clients reached" and is closed.
C6_FullByOpenConnectionsNotServed ==
    cur.open_full => NotServed

\* C6 (amended): a connection accepted while the counter of active clients
\* reads MAX_CLIENTS or more, that is while MAX_CLIENTS tasks have started
\* and not ended, is not served; no frame but the Error frame "max number
\* of clients reached" is written to it, exactly that one once the accept
\* loop is back at its select, and it is closed.
C6_FullByCounterNotServed ==
    cur.count_full => NotServed

C6_Witness ==
    /\ cur.count_full
    /\ srvPc = "select"
    /\ cur.out = <<MaxClientsFrame>>
    /\ cur.closed
    /\ client_count = MAX_CLIENTS

\* C7: once the shutdown signal is sent (and run() itself has it to
\* receive), every connection task, spawned before or after it, has the
\* signal to receive at its next select.
C7_EveryTaskObservesSignal ==
    (sent > 0 /\ IsSome(mainRx) /\ RecvReady(Unwrap(mainRx))) =>
        \A r \in Receivers : (spawned[r] + serving[r] > 0) => RecvReady(r)

\* C8: once the handle has been signalled, before run() or during it, the
\* shutdown branch of the select of run() is ready whenever run() waits
\* there, so that run() leaves the loop.
C8_SignalStopsRun ==
    (sent > 0 /\ srvPc = "select") => RecvReady(Unwrap(mainRx))


(***************************************************************************)
(* A connection served: the client sends its requests in pieces and closes,*)
(* the task reads, executes and answers.                                   *)
(***************************************************************************)
NextConn ==
    \/ \E n \in {1, Len(toSend)} : ClientSend(n)
    \/ ClientClose
    \/ ConnParse
    \/ ConnRecv
    \/ FromFrameError
    \/ Executing("Get") /\ Get(ConnTask, TheCommand.key)
    \/ Executing("Set") /\ SetBegin(ConnTask, TheCommand.key, TheCommand.val,
                                    TheCommand.expiration)
    \/ SetCommit(ConnTask)
    \/ Executing("Ping") /\ Ping(ConnTask, TheCommand.msg)
    \/ Executing("Increment") /\ Increment(ConnTask, TheCommand.key, FALSE)
    \/ Executing("FlushDB") /\ FlushDB(ConnTask)
    \/ Executing("Del") /\ Del(ConnTask, TheCommand.keys)
    \/ RemoveQueue(ConnTask)
    \/ Executing("Exists") /\ Exists(ConnTask, TheCommand.keys)
    \/ Executing("DBSize") /\ DBSize(ConnTask)
    \/ Executing("Unknown") /\ Unknown(ConnTask, TheCommand.key)
    \/ Executing("Lolwut") /\ Lolwut(ConnTask, TheCommand.frames)
    \/ Executing("Expire") /\ Expire(ConnTask, TheCommand.key, TheCommand.seconds)
    \/ Executing("TTL") /\ TTL(ConnTask, TheCommand.key)
    \/ \E ok \in BOOLEAN : ConnWrite(ok)

InitServed == InitDb /\ InitSrvServing /\ InitConnServed

SpecConn == InitServed /\ [][NextConn]_vars

SameFrame(a, b) == a.type = b.type /\ a.val = b.val

\* C9: on a connection the i-th frame the task handles is the i-th request
\* the client sent, and the response to it is written before the next one
\* is handled.
C9_RequestsHandledInOrder ==
    /\ Len(handled) <= Len(reqs)
    /\ \A i \in 1..Len(handled) : i <= Len(reqs) => SameFrame(handled[i], reqs[i])
    /\ Len(written) <= Len(handled)
    /\ Len(handled) <= Len(written) + 1

\* the request fails in the command layer
CommandFails(f) == ~FromFrame(f).ok \/ FromFrame(f).cmd.name = "Unknown"

\* C10: a request that fails in the command layer is answered by one Error
\* frame whose text starts with "ERR ", leaves the map and the queue as they
\* were, and is not followed by the task ending on an error of its own.
C10_CommandErrorAnsweredConnectionKept ==
    \A i \in 1..Len(handled) :
        CommandFails(handled[i]) =>
            /\ Len(written) >= i =>
                    /\ written[i].type = "Error"
                    /\ written[i].val # <<>>
                    /\ written[i].val[1] = "ERR "
            /\ i = Len(handled) => <<data, expiration_queue>> = kvAtRead
            /\ ~(i = Len(handled) /\ connPc \in {"read_error", "panic"})


(***************************************************************************)
(* Protocol errors: the served connection receives bytes that are not the  *)
(* encoding of a frame, or loses its peer in the middle of a frame, while  *)
(* the accept loop takes other connections.                                *)
(***************************************************************************)
SetKA == Request(<<<<"S", "E", "T">>, KeyK, <<"a">>>>)

\* bytes that are not the encoding of a frame: ExcessiveNewline,
\* ConversionError (in is_parsable, in parse), UnsupportedFrame, frames cut
\* short, and bulk or array headers with a negative or oversized length,
\* alone and inside an array
BadBytes ==
    << <<"+", "O", "K", CR, CR, LF>>,
       <<"$", "x", CR, LF>>,
       <<":", "x", CR, LF>>,
       <<"!", CR, LF>>,
       <<"+", "O", "K">>,
       <<"*", "1", CR, LF, "$", "3", CR, LF, "a">>,
       <<"$", "-", "2", CR, LF, CR, LF>>,
       <<"$", "5", CR, LF, "a", "b", CR, LF>>,
       <<"*", "1", CR, LF, "$", "5", CR, LF, "a", "b", CR, LF>>,
       <<"*", "-", "1", CR, LF>>,
       <<"*", "2", CR, LF, "$", "1", CR, LF, "a", CR, LF>> >>

\* the connection task ends: handle_client_connection returns Ok or Err, or
\* unwinds, and its ClientGuard is dropped without the counter being touched
ConnExitCounterKept ==
    /\ connPc \in {"closed", "timed_out", "read_error", "write_error", "panic"}
    /\ connPc' = "ended"
    /\ serving' = [serving EXCEPT ![0] = @ - 1]
    /\ UNCHANGED <<client_count, srvPc, sent, mainRx, spawned, accepted, handles, cur,
                   reqs, toSend, wire, peerClosed, buffer, request, handled,
                   written, kvAtRead, dbvars>>

\* the connection task ends: handle_client_connection returns Ok or Err, or
\* unwinds, and its ClientGuard is dropped
ConnExit ==
    /\ connPc \in {"closed", "timed_out", "read_error", "write_error", "panic"}
    /\ connPc' = "ended"
    /\ serving' = [serving EXCEPT ![0] = @ - 1]
    /\ client_count' = client_count - 1
    /\ UNCHANGED <<srvPc, sent, mainRx, spawned, accepted, handles, cur,
                   reqs, toSend, wire, peerClosed, buffer, request, handled,
                   written, kvAtRead, dbvars>>

\* a client has connected and its task has started; it sends nothing, or
\* SET k a, and then bytes of BadBytes
InitConnProto ==
    /\ reqs \in {<<>>, <<SetKA>>}
    /\ \E b \in 1..Len(BadBytes) : toSend = WriteFrames(reqs) \o BadBytes[b]
    /\ wire = <<>>
    /\ peerClosed = FALSE
    /\ buffer = <<>>
    /\ connPc = "parse"
    /\ request = NoFrame
    /\ handled = <<>>
    /\ written = <<>>
    /\ kvAtRead = <<EmptyMap, {}>>

InitProto == InitDb /\ InitSrvServing /\ InitConnProto

NextProto ==
    \/ \E n \in {1, Len(toSend)} : ClientSend(n)
    \/ ClientClose
    \/ ConnParse
    \/ ConnRecv
    \/ Executing("Set") /\ SetBegin(ConnTask, TheCommand.key, TheCommand.val,
                                    TheCommand.expiration)
    \/ SetCommit(ConnTask)
    \/ \E ok \in BOOLEAN : ConnWrite(ok)
    \/ ConnExit
    \/ AcceptSpawn(1 + MaxConns)
    \/ \E r \in Receivers : TaskStart(r)

SpecProto == InitProto /\ [][NextProto]_vars

\* the step leaves the other connections, the accept loop and the keyspace
\* as they were
OthersUntouched ==
    /\ spawned' = spawned
    /\ \A r \in Receivers \ {0} : serving'[r] = serving[r]
    /\ accepted' = accepted
    /\ srvPc' = srvPc
    /\ srvPc = "select"
    /\ data' = data
    /\ expiration_queue' = expiration_queue

\* read_frame fails with a protocol error or at an end of stream inside a frame
C11_FailingStep ==
    (connPc # "read_error" /\ connPc' = "read_error") =>
        /\ OthersUntouched
        /\ serving' = serving
        /\ client_count' = client_count

\* the task of the failed connection ends
C11_EndingStep ==
    (connPc = "read_error" /\ connPc' # "read_error") =>
        /\ OthersUntouched
        /\ connPc' = "ended"
        /\ serving'[0] = serving[0] - 1
        /\ client_count' = client_count - 1

\* C11: a protocol error on a connection (ExcessiveNewline, ConversionError,
\* UnsupportedFrame, end of stream inside a frame) ends the task of that
\* connection only: the other tasks, the accept loop, the map and the queue
\* are untouched by the failure and by the end of the task, the counter of
\* active clients goes down by one, and it counts the tasks still serving.
C11_ProtocolErrorEndsOneConnection ==
    /\ [][C11_FailingStep /\ C11_EndingStep]_vars
    /\ [](connPc = "ended" => (srvPc = "select" /\ client_count = Count(serving)))

C11_Witness ==
    /\ connPc = "ended"
    /\ DOMAIN data = {KeyK}
    /\ Count(serving) = MaxConns
    /\ client_count = MaxConns


(***************************************************************************)
(* Commands in sequence: one connection whose client sends MaxCmds of the  *)
(* requests below, each executed and answered before the next is read,     *)
(* while the expiration task and the clock run.  read_frame is taken as    *)
(* returning the frame the client encoded; GET and DBSIZE are read off the *)
(* map by the properties.                                                  *)
(***************************************************************************)
CmdRequests ==
    << SetKA,
       Request(<<<<"S", "E", "T">>, KeyK, <<"7">>, <<"P", "X">>, <<"1", "0", "0">>>>),
       Request(<<<<"S", "E", "T">>, KeyK, I64MaxMag>>),
       Request(<<<<"S", "E", "T">>, KeyJ, <<"b">>, <<"P", "X">>, <<"2", "0", "0">>>>),
       Request(<<<<"I", "N", "C", "R">>, KeyK>>),
       Request(<<<<"D", "E", "L">>, KeyK, KeyJ>>),
       Request(<<<<"D", "E", "L">>, KeyK, KeyK>>),
       Request(<<<<"E", "X", "I", "S", "T", "S">>, KeyK, KeyJ>>),
       Request(<<<<"E", "X", "I", "S", "T", "S">>, KeyK, KeyK>>),
       Request(<<<<"F", "L", "U", "S", "H", "D", "B">>>>),
       Request(<<<<"E", "X", "P", "I", "R", "E">>, KeyK, <<"0">>>>),
       Request(<<<<"E", "X", "P", "I", "R", "E">>, KeyK, <<"1">>>>),
       Request(<<<<"T", "T", "L">>, KeyK>>),
       Request(<<<<"K", "E", "Y", "S">>, <<"*">>>>),
       Request(<<<<"K", "E", "Y", "S">>, <<"[">>>>) >>

\* read_frame returns the next request of the client
ReadFrame(i) ==
    /\ connPc = "parse"
    /\ nops < MaxCmds
    /\ request' = CmdRequests[i]
    /\ kvAtRead' = <<data, expiration_queue>>
    /\ cres' = NoReply
    /\ connPc' = "frame"
    /\ UNCHANGED <<reqs, toSend, wire, peerClosed, buffer, handled, written,
                   data, expiration_queue, now, reaperPc, expired_keys, nextTick,
                   expiration_chan, cpc, cloc, nops, lastWrite, sweepSets,
                   incrReplies, srvvars>>

\* conn.write_frame(&response) succeeds and the task is back at read_frame
\* (the replies written are not kept in this scenario)
Respond ==
    /\ connPc = "frame"
    /\ cres # NoReply
    /\ cpc[ConnTask] = "idle"
    /\ connPc' = "parse"
    /\ UNCHANGED <<reqs, toSend, wire, peerClosed, buffer, request, handled,
                   written, kvAtRead, dbvars, srvvars>>

\* the connection is open, nothing sent yet, the task at its first read_frame
InitConnCmd ==
    /\ reqs = <<>>
    /\ toSend = <<>>
    /\ wire = <<>>
    /\ peerClosed = FALSE
    /\ buffer = <<>>
    /\ connPc = "parse"
    /\ request = NoFrame
    /\ handled = <<>>
    /\ written = <<>>
    /\ kvAtRead = <<EmptyMap, {}>>

InitCmd == InitDb /\ InitSrvServing /\ InitConnCmd

NextCmd ==
    \/ \E i \in 1..Len(CmdRequests) : ReadFrame(i)
    \/ Executing("Set") /\ SetBegin(ConnTask, TheCommand.key, TheCommand.val,
                                    TheCommand.expiration)
    \/ SetCommit(ConnTask)
    \/ Executing("Increment") /\ Increment(ConnTask, TheCommand.key, FALSE)
    \/ Executing("FlushDB") /\ FlushDB(ConnTask)
    \/ Executing("Del") /\ Del(ConnTask, TheCommand.keys)
    \/ DelNext(ConnTask)
    \/ RemoveQueue(ConnTask)
    \/ Executing("Exists") /\ Exists(ConnTask, TheCommand.keys)
    \/ ExistsNext(ConnTask)
    \/ Executing("Keys") /\ Keys(ConnTask, TheCommand.key)
    \/ Executing("Expire") /\ Expire(ConnTask, TheCommand.key, TheCommand.seconds)
    \/ Executing("TTL") /\ TTL(ConnTask, TheCommand.key)
    \/ Respond
    \/ ReaperPop
    \/ ReaperRemove
    \/ Tick

SpecCmd == InitCmd /\ [][NextCmd]_vars


(***************************************************************************)
(* Properties of the commands in sequence (SpecCmd).                       *)
(***************************************************************************)
\* the frame is an integer reply above zero
IsPositive(f) == f.type = "Integer" /\ ~f.val.neg /\ f.val.mag # <<"0">>

\* C12: TTL k replies -2 exactly when k does not exist, -1 exactly when k
\* exists without a deadline, and an integer above zero when k exists with
\* a deadline still ahead; once FLUSHDB has replied every key replies -2.
C12_TtlReplies ==
    /\ \A k \in AllKeys :
        LET f == ReplyTTL(data, k, now)
        IN  /\ (f = Integer(I64(-2))) <=> ~DbExists(data, k, now)
            /\ (f = Integer(I64(-1))) <=>
                   (DbExists(data, k, now) /\ data[k].expiration = None)
            /\ (DbExists(data, k, now) /\ IsSome(data[k].expiration))
                   => IsPositive(f)
    /\ cres.cmd.name = "FlushDB" =>
           \A k \in AllKeys : ReplyTTL(data, k, now) = Integer(I64(-2))

\* C13: once FLUSHDB has replied (and until the next command) the map is
\* empty, DBSIZE is 0, GET of every key is Null, and the expiration queue
\* holds no entry.
C13_FlushEmptiesMapAndQueue ==
    cres.cmd.name = "FlushDB" =>
        /\ data = EmptyMap
        /\ DbSize(data) = 0
        /\ \A k \in AllKeys : ReplyGet(data, k, now) = Null
        /\ expiration_queue = {}

\* the step in which the command `name` on key k is executed and replies
Replies(name, k) ==
    /\ cres = NoReply
    /\ cres'.cmd.name = name
    /\ cres'.cmd.key = k

\* a value of a few decimal digits, read as a number
IsSmallDecimal(v) ==
    /\ Len(v) \in 1..9
    /\ \A i \in 1..Len(v) : v[i] \in DigitSet

C14_IncrStep ==
    \A k \in AllKeys :
        Replies("Increment", k) =>
            /\ k \notin DOMAIN data =>
                   /\ data' = MapInsert(data, k, DBItem(<<"1">>, None))
                   /\ SameFrame(cres'.frame, Integer(I64(1)))
            /\ (DbExists(data, k, now) /\ IsSmallDecimal(data[k].value)) =>
                   LET n == DigitsNat(data[k].value)
                   IN  /\ data' = [data EXCEPT ![k].value = NatDigits(n + 1)]
                       /\ data'[k].expiration = data[k].expiration
                       /\ SameFrame(cres'.frame, Integer(I64(n + 1)))
            /\ expiration_queue' = expiration_queue

\* C14: INCR on a missing key creates it with the value 1 and no deadline
\* and replies 1; INCR on a visible key that holds the decimal integer n
\* stores n+1, replies n+1 and leaves the deadline of the key as it was.
C14_IncrCreatesOrAddsOne == [][C14_IncrStep]_vars

C14_Witness ==
    /\ cres.cmd = CmdIncrement(KeyK)
    /\ SameFrame(cres.frame, Integer(I64(8)))
    /\ KeyK \in DOMAIN data
    /\ data[KeyK] = DBItem(<<"8">>, Some(100))

\* the value is no i64 in decimal, or it is i64::MAX
CannotIncrement(v) ==
    \/ v = <<>>
    \/ \E i \in 1..Len(v) : v[i] \notin DigitSet
    \/ v = I64MaxMag

C15_IncrStep ==
    \A k \in AllKeys :
        (Replies("Increment", k) /\ DbExists(data, k, now)
            /\ CannotIncrement(data[k].value)) =>
            /\ cres'.frame.type = "Error"
            /\ cres'.frame.val[1] = "ERR "
            /\ data[k].value = I64MaxMag
                   => SameFrame(cres'.frame, Error(<<"ERR ", "Integer overflow">>))
            /\ data' = data
            /\ expiration_queue' = expiration_queue

\* the task writes the error reply to INCR and reads the next frame
C15_AfterStep ==
    (connPc = "frame" /\ cres.cmd.name = "Increment"
        /\ cres.frame.type = "Error" /\ connPc' # connPc) => connPc' = "parse"

\* C15: INCR on a visible key whose value is no decimal i64, or is
\* i64::MAX, replies an Error frame ("ERR " and the parse error, or
\* "ERR Integer overflow"), leaves the map and the queue as they were, and
\* the task goes on to read the next frame of the connection.
C15_IncrErrorLeavesKey == [][C15_IncrStep /\ C15_AfterStep]_vars

C15_Witness ==
    /\ cres.cmd = CmdIncrement(KeyK)
    /\ SameFrame(cres.frame, Error(<<"ERR ", "Integer overflow">>))
    /\ KeyK \in DOMAIN data
    /\ data[KeyK].value = I64MaxMag
    /\ connPc = "parse"

C16_IncrStep ==
    \A k \in AllKeys :
        (Replies("Increment", k) /\ k \in DOMAIN data /\ ~NotExpired(data[k], now)) =>
            /\ data' = MapRemove(data, k)
            /\ SameFrame(cres'.frame, Error(<<"ERR ", "Key has expired">>))
            /\ ReplyGet(data', k, now') = Null

\* C16: INCR on an entry whose deadline has passed and which is still in the
\* map removes the entry and replies the error "Key has expired"; no counter
\* is created, and GET of the key is Null from then on.
C16_IncrOnExpiredDeletes == [][C16_IncrStep]_vars

C16_Witness ==
    /\ cres.cmd = CmdIncrement(KeyK)
    /\ SameFrame(cres.frame, Error(<<"ERR ", "Key has expired">>))
    /\ KeyK \notin DOMAIN data
    /\ \E e \in expiration_queue : e.key = KeyK


(***************************************************************************)
(* EXPIRE under concurrent clients (Spec).                                 *)
(***************************************************************************)
\* the step in which EXPIRE on key k is executed and replies
ExpireReplies(k) ==
    /\ nops' = nops + 1
    /\ cres'.cmd.name = "Expire"
    /\ cres'.cmd.key = k

C17_ExpireStep ==
    \A k \in AllKeys :
        ExpireReplies(k) =>
            IF k \in DOMAIN data
            THEN /\ SameFrame(cres'.frame, Integer(I64(1)))
                 /\ data' = [data EXCEPT ![k].expiration =
                                Some(now + 1000 * cres'.cmd.seconds)]
            ELSE /\ SameFrame(cres'.frame, Integer(I64(0)))
                 /\ data' = data
                 /\ expiration_queue' = expiration_queue

\* the last client command on k is an EXPIRE that replied 1, and its
\* deadline and one period of the expiration task have passed
ExpireCameDue(k) ==
    /\ lastWrite[k].kind = "expire"
    /\ now > Unwrap(lastWrite[k].deadline) + DB_EXPIRATION_CHECK_INTERVAL

\* C17: EXPIRE k s on an absent key replies 0 and changes neither the map
\* nor the queue; on a present key it replies 1 and sets the deadline of k
\* to now + s seconds; once that deadline and one period of the expiration
\* task have passed, GET k is Null and k is no longer in the map that
\* DBSIZE counts.
C17_ExpireSetsDeadlineAndKeyGoes ==
    /\ [][C17_ExpireStep]_vars
    /\ [](\A k \in AllKeys :
            ExpireCameDue(k) =>
                /\ ReplyGet(data, k, now) = Null
                /\ k \notin DOMAIN data)


(***************************************************************************)
(* DEL and EXISTS with several keys (SpecCmd).                             *)
(***************************************************************************)
\* what the command of task c saw when it began
StartOf(c) == IF cpc[c] = "idle" THEN Snapshot ELSE cloc[c].start

\* the expiration task has made no sweep since the snapshot was taken
NoSweepSince(st) ==
    /\ st.reaperPc = "sleep"
    /\ reaperPc' = "sleep"
    /\ nextTick' = st.nextTick

\* the keys of a list
Listed(keys) == {keys[i] : i \in 1..Len(keys)}

\* key k is in map d with no deadline or a deadline after t
VisibleIn(d, k, t) ==
    /\ k \in DOMAIN d
    /\ (d[k].expiration = None \/ t < Unwrap(d[k].expiration))

\* DEL replies
C18_DelStep ==
    \A c \in Tasks :
        (cpc[c] = "remove_queue" /\ cpc'[c] = "idle") =>
            LET keys == cloc[c].cmd.keys
                st == cloc[c].start
            IN  /\ \A k \in Listed(keys) : k \notin DOMAIN data'
                /\ NoSweepSince(st) =>
                     /\ SameFrame(cres'.frame,
                            Integer(I64(Cardinality(Listed(keys) \cap DOMAIN st.data))))
                     /\ DOMAIN data' = DOMAIN st.data \ Listed(keys)
                     /\ \A k \in DOMAIN data' : data'[k] = st.data[k]

\* EXISTS looks at a key, and replies after the last one
C18_ExistsStep ==
    \A c \in Tasks :
        (cpc[c] \in {"idle", "exists"}
            /\ (\/ cpc'[c] = "exists" /\ cloc'[c] # cloc[c]
                \/ nops' = nops + 1 /\ cres'.cmd.name = "Exists"
                       /\ cres'.task = c)) =>
            /\ data' = data
            /\ expiration_queue' = expiration_queue
            /\ (cpc'[c] = "idle" /\ NoSweepSince(StartOf(c))
                    /\ now' = StartOf(c).now) =>
                 LET keys == cres'.cmd.keys
                     st == StartOf(c)
                 IN  SameFrame(cres'.frame,
                         Integer(I64(Cardinality({i \in 1..Len(keys) :
                                        VisibleIn(st.data, keys[i], st.now)}))))

\* C18: DEL k1..kn replies the number of listed keys that were in the map,
\* and when it replies no listed key is in the map; EXISTS k1..kn replies
\* the number of listed keys that are visible (a key listed twice counts
\* twice); keys that are not listed keep their value and their deadline.
\* The counts are those of the map as the command found it, the expiration
\* task making no sweep while the command runs.
C18_DelAndExistsCount == [][C18_DelStep /\ C18_ExistsStep]_vars

C18_Witness ==
    /\ cres.cmd = CmdDel(<<KeyK, KeyJ>>)
    /\ SameFrame(cres.frame, Integer(I64(2)))
    /\ data = EmptyMap
    /\ nextTick = 0


(***************************************************************************)
(* KEYS (SpecCmd).                                                         *)
(***************************************************************************)
C19_KeysStep ==
    (cres = NoReply /\ cres'.cmd.name = "Keys" /\ GlobError(cres'.cmd.key) < 0) =>
        LET pattern == cres'.cmd.key
            listed == cres'.frame.val
            expected == {k \in DOMAIN data :
                            VisibleIn(data, k, now) /\ GlobMatches(pattern, k)}
        IN  /\ cres'.frame.type = "Array"
            /\ {listed[i] : i \in 1..Len(listed)} = {Bulk(k) : k \in expected}
            /\ Len(listed) = Cardinality(expected)

\* C19: KEYS pattern replies exactly the visible keys that match the
\* pattern; a key whose deadline has passed is not listed, whether or not
\* the expiration task has removed it.
C19_KeysListsVisibleKeys == [][C19_KeysStep]_vars


(***************************************************************************)
(* The round trip of a frame: one side writes it with write_frame, the     *)
(* other reads it with read_frame (parse_frame: is_parsable, then parse).  *)
(***************************************************************************)
\* the frames written: every variant but Null, and arrays of them
CodecFrames ==
    << Simple(<<"O", "K">>),
       Simple(<<>>),
       Error(<<"E", "R", "R", " ", "x">>),
       Integer(I64(0)),
       Integer(I64(0 - 7)),
       Integer(I64(12)),
       Bulk(<<"a">>),
       Bulk(<<>>),
       Bulk(<<"a", CR, LF, "b">>),
       Array(<<>>),
       Array(<<Bulk(<<"G", "E", "T">>), Bulk(KeyK)>>),
       Array(<<Integer(I64(1)), Simple(<<"O", "K">>)>>),
       Array(<<Array(<<Bulk(<<"a">>)>>), Integer(I64(0 - 1))>>),
       Array(<<Array(<<Array(<<>>), Simple(<<"a">>)>>)>>),
       Array(<<Error(<<"x">>)>>) >>

\* a connection is open and the peer is about to write one frame of CodecFrames
InitConnCodec ==
    /\ \E f \in 1..Len(CodecFrames) : reqs = <<CodecFrames[f]>>
    /\ toSend = WriteFrame(reqs[1])
    /\ wire = <<>>
    /\ peerClosed = FALSE
    /\ buffer = <<>>
    /\ connPc = "parse"
    /\ request = NoFrame
    /\ handled = <<>>
    /\ written = <<>>
    /\ kvAtRead = <<EmptyMap, {}>>

InitCodec == InitDb /\ InitSrvServing /\ InitConnCodec

NextCodec ==
    \/ \E n \in {1, 2, Len(toSend)} : ClientSend(n)
    \/ ClientClose
    \/ ConnParse
    \/ ConnRecv

SpecCodec == InitCodec /\ [][NextCodec]_vars

\* the same variant and the same content, arrays element by element
RECURSIVE EqualFrames(_, _)
EqualFrames(a, b) ==
    /\ a.type = b.type
    /\ IF a.type = "Array"
       THEN /\ Len(a.val) = Len(b.val)
            /\ \A i \in 1..Len(a.val) : EqualFrames(a.val[i], b.val[i])
       ELSE a.val = b.val

\* C20: a frame other than Null (Simple, Error, Integer, Bulk, arrays of
\* them at any depth) written with write_frame is read back by read_frame
\* as an equal frame, same variant and same content, and reading it never
\* fails.
C20_WriteThenReadIsIdentity ==
    /\ connPc \notin {"read_error", "panic"}
    /\ connPc = "frame" => EqualFrames(request, reqs[1])


(***************************************************************************)
(* Reading a stream: the peer writes the bytes of some frames in chunks of *)
(* any size and closes; the reader calls read_frame until it returns None  *)
(* or fails.                                                               *)
(***************************************************************************)
SetCrlf == Request(<<<<"S", "E", "T">>, KeyK, <<"a", CR, LF, "b">>>>)

\* the streams of frames written by the peer
ReadStreams ==
    << <<GetK>>,
       <<SetKA, GetK>>,
       <<Simple(<<"P", "I", "N", "G">>), GetK>>,
       <<Integer(I64(12)), Error(<<"x">>)>>,
       <<Array(<<Array(<<Bulk(<<"a">>)>>), Integer(I64(0 - 1))>>), Bulk(<<>>)>>,
       <<Null, Bulk(<<"a", "b", "c">>)>>,
       <<Bulk(<<"a", CR, "b">>), GetK>>,
       <<Bulk(<<"a", LF>>), GetK>>,
       <<Bulk(<<CR>>), GetK>>,
       <<Bulk(<<CR, LF>>)>>,
       <<SetCrlf>>,
       <<SetCrlf, GetK>> >>

\* what read_frame, called again and again, returns when the whole stream
\* is in the read buffer and the peer has closed
RECURSIVE ReadAllFrom(_, _)
ReadAllFrom(buf, frames) ==
    LET r == ParseFrame(buf)
    IN  IF r.tag = "Panic" THEN [frames |-> frames, end |-> "panic", buffer |-> buf]
        ELSE IF r.tag = "Err"
        THEN [frames |-> frames, end |-> "read_error", buffer |-> buf]
        ELSE IF r.frame = None
        THEN [frames |-> frames, buffer |-> buf,
              end |-> IF buf = <<>> THEN "closed" ELSE "read_error"]
        ELSE ReadAllFrom(r.buffer, Append(frames, Unwrap(r.frame)))

ReadAll(buf) == ReadAllFrom(buf, <<>>)

\* the caller has taken the frame and calls read_frame again
ReadNext ==
    /\ connPc = "frame"
    /\ connPc' = "parse"
    /\ UNCHANGED <<reqs, toSend, wire, peerClosed, buffer, request, handled,
                   written, kvAtRead, dbvars, srvvars>>

\* a connection is open and the peer is about to write a stream of ReadStreams
InitConnRead ==
    /\ \E i \in 1..Len(ReadStreams) : reqs = ReadStreams[i]
    /\ toSend = WriteFrames(reqs)
    /\ wire = <<>>
    /\ peerClosed = FALSE
    /\ buffer = <<>>
    /\ connPc = "parse"
    /\ request = NoFrame
    /\ handled = <<>>
    /\ written = <<>>
    /\ kvAtRead = <<EmptyMap, {}>>

InitRead == InitDb /\ InitSrvServing /\ InitConnRead

NextRead ==
    \/ \E n \in {1, 2, Len(toSend)} : ClientSend(n)
    \/ ClientClose
    \/ ConnParse
    \/ ConnRecv
    \/ ReadNext

SpecRead == InitRead /\ [][NextRead]_vars

\* two sequences of frames are equal, frame by frame
EqualFrameSeqs(a, b) ==
    /\ Len(a) = Len(b)
    /\ \A i \in 1..Len(a) : EqualFrames(a[i], b[i])

\* read_frame has returned None or has failed
ReadingOver == connPc \in {"closed", "read_error", "panic"}

\* C21: the bytes of a valid stream of frames, fed to read_frame in any
\* split into chunks, yield the same sequence of frames as the whole stream
\* fed at once, and the read buffer is empty after the last frame.
C21_SplitsReadAlike ==
    LET whole == ReadAll(WriteFrames(reqs))
    IN  /\ Len(handled) <= Len(whole.frames)
        /\ EqualFrameSeqs(handled, SubSeq(whole.frames, 1, Len(handled)))
        /\ ReadingOver =>
              /\ connPc = whole.end
              /\ Len(handled) = Len(whole.frames)
              /\ buffer = <<>>


\* a bulk string, or an array of such frames
RECURSIVE OnlyBulks(_)
OnlyBulks(f) ==
    \/ f.type = "Bulk"
    \/ /\ f.type = "Array"
       /\ \A i \in 1..Len(f.val) : OnlyBulks(f.val[i])

\* the bytes of the stream that are neither in the read buffer nor yet to come
Consumed == Len(WriteFrames(reqs)) - (Len(toSend) + Len(wire) + Len(buffer))

\* C22: a bulk string is its len payload bytes, whatever they are: a
\* payload holding CR, LF or CRLF is returned as one Bulk of len bytes, and
\* the read buffer is advanced by the length of the whole frame, no more
\* and no less.
C22_BulkIsBinaryClean ==
    (\A i \in 1..Len(reqs) : OnlyBulks(reqs[i])) =>
        /\ connPc \notin {"read_error", "panic"}
        /\ Len(handled) <= Len(reqs)
        /\ connPc = "frame" =>
              /\ EqualFrames(request, reqs[Len(handled)])
              /\ Consumed = Len(WriteFrames(SubSeq(reqs, 1, Len(handled))))


(***************************************************************************)
(* Hostile input (SpecProto).                                              *)
(***************************************************************************)
\* C23: no bytes sent by a client make the connection task panic: on every
\* input the task waits for more data, replies, or ends with an error; no
\* slice index and no length computation goes out of range.
C23_InputNeverPanics == connPc # "panic"


(***************************************************************************)
(* Rejections (SpecAdmission).                                             *)
(***************************************************************************)
\* C24: rejecting a connection because the server is full never stops the
\* server: whether writing the Error frame to the rejected socket and
\* closing it succeed or fail, run() stays in its accept loop.
C24_RejectionKeepsServerRunning == srvPc # "failed"


(***************************************************************************)
(* The counter of active clients (SpecShutdown).                           *)
(***************************************************************************)
\* the counter moves only with a task starting or ending, by one, with it
C25_CounterStep ==
    /\ client_count' - client_count = Count(serving') - Count(serving)
    /\ client_count' - client_count \in {0 - 1, 0, 1}

\* C25: the counter of active clients is the number of connection tasks
\* that have started and not ended: one up when a task starts, one down
\* when it ends, whichever way it ends (end of stream, timeout, error,
\* shutdown signal); it is never negative, and once every client is gone it
\* is 0 again, so that MAX_CLIENTS connections can be admitted anew.
C25_CounterCountsRunningTasks ==
    /\ [][C25_CounterStep]_vars
    /\ [](/\ client_count = Count(serving)
          /\ client_count >= 0
          /\ OpenConnections = 0 =>
                (client_count = 0 /\ ~MaxClientsReached(client_count)))

C25_Witness ==
    /\ accepted = MaxConns
    /\ OpenConnections = 0
    /\ client_count = 0
    /\ sent > 0
    /\ srvPc = "select"


(***************************************************************************)
(* DB::shutdown called by the holders of a handle of the keyspace, any     *)
(* number of times, while the expiration task and the clock run.  The      *)
(* channel of expiration_sender holds one message (channel(1)): a send     *)
(* returns at once when the slot is free or the receiver is gone, and      *)
(* waits otherwise.                                                        *)
(***************************************************************************)
\* DB::shutdown: self.expiration_sender.send(()).await, up to its first poll
ShutdownSend(c) ==
    /\ cpc[c] = "idle"
    /\ nops + Cardinality({t \in Tasks : cpc[t] # "idle"}) < MaxOps
    /\ IF reaperPc = "stopped"
       THEN \* the receiver is dropped: Err, logged, the call returns
            /\ nops' = nops + 1
            /\ UNCHANGED <<expiration_chan, cpc>>
       ELSE IF expiration_chan = 0
       THEN \* the slot is free: Ok, the call returns
            /\ expiration_chan' = 1
            /\ nops' = nops + 1
            /\ UNCHANGED cpc
       ELSE \* the slot is taken: the send waits
            /\ cpc' = [cpc EXCEPT ![c] = "shutdown"]
            /\ UNCHANGED <<expiration_chan, nops>>
    /\ UNCHANGED <<data, expiration_queue, now, reaperPc, expired_keys, nextTick,
                   cloc, cres, lastWrite, sweepSets, incrReplies, srvvars, connvars>>

\* a waiting send is woken only by a free slot
ShutdownReturnOnFreeSlot(c) ==
    /\ cpc[c] = "shutdown"
    /\ reaperPc # "stopped"
    /\ expiration_chan = 0
    /\ expiration_chan' = 1
    /\ cpc' = [cpc EXCEPT ![c] = "idle"]
    /\ nops' = nops + 1
    /\ UNCHANGED <<data, expiration_queue, now, reaperPc, expired_keys, nextTick,
                   cloc, cres, lastWrite, sweepSets, incrReplies, srvvars, connvars>>

\* a waiting send completes: the expiration task has taken the message and
\* ended, dropping the receiver (Ok or Err, the call returns either way)
ShutdownReturn(c) ==
    /\ cpc[c] = "shutdown"
    /\ reaperPc = "stopped"
    /\ cpc' = [cpc EXCEPT ![c] = "idle"]
    /\ nops' = nops + 1
    /\ UNCHANGED <<data, expiration_queue, now, reaperPc, expired_keys, nextTick,
                   expiration_chan, cloc, cres, lastWrite, sweepSets, incrReplies,
                   srvvars, connvars>>

\* DB::new, and then nothing or one SET k v, with or without a duration
InitDbHolding ==
    /\ \/ /\ data = EmptyMap
          /\ expiration_queue = {}
          /\ lastWrite = [k \in AllKeys |-> NoWrite]
       \/ \E v \in DbVals, d \in {None} \cup {Some(x) : x \in DbDurations} :
             /\ data = DbSetData(EmptyMap, KeyK, v, d)
             /\ expiration_queue = DbSetQueue({}, KeyK, d)
             /\ lastWrite = [[k \in AllKeys |-> NoWrite] EXCEPT ![KeyK] = SetWrite(v, d)]
    /\ now = 0
    /\ reaperPc = "sleep"
    /\ expired_keys = {}
    /\ nextTick = 0
    /\ expiration_chan = 0
    /\ cpc = [c \in Tasks |-> "idle"]
    /\ cloc = [c \in Tasks |-> NoLocals]
    /\ cres = NoReply
    /\ nops = 0
    /\ sweepSets = {}
    /\ incrReplies = <<>>

InitDbShutdown == InitDbHolding /\ InitSrv /\ InitConn

NextDbShutdown ==
    \/ \E c \in DbClients : ShutdownSend(c)
    \/ \E c \in DbClients : ShutdownReturn(c)
    \/ ReaperPop
    \/ ReaperRemove
    \/ ReaperStop
    \/ Tick

\* the expiration task is scheduled, its interval fires, and a woken send
\* is polled
SpecDbShutdown ==
    /\ InitDbShutdown
    /\ [][NextDbShutdown]_vars
    /\ WF_vars(Tick)
    /\ WF_vars(ReaperPop)
    /\ WF_vars(ReaperRemove)
    /\ WF_vars(ReaperStop)
    /\ \A c \in DbClients : WF_vars(ShutdownReturn(c))

\* the clock of the model is at its bound and the interval of the
\* expiration task cannot fire any more
ClockOut == now >= MaxTicks * DB_EXPIRATION_CHECK_INTERVAL /\ nextTick > now

\* DB::shutdown has been called
ShutdownCalled == nops > 0 \/ \E c \in DbClients : cpc[c] = "shutdown"

\* C26: DB::shutdown may be called any number of times, from any handle:
\* after one call or several the expiration task stops at its next tick and
\* stays stopped, the map and the queue being left as they are, and every
\* call returns.
C26_ShutdownIsIdempotent ==
    /\ ShutdownCalled ~> (reaperPc = "stopped" \/ ClockOut)
    /\ \A c \in DbClients : (cpc[c] = "shutdown") ~> (cpc[c] = "idle" \/ ClockOut)
    /\ [][reaperPc = "stopped" =>
            /\ reaperPc' = "stopped"
            /\ data' = data
            /\ expiration_queue' = expiration_queue]_vars
    /\ [](reaperPc = "stopped" => ShutdownCalled)

C26_Witness ==
    /\ nops = MaxOps
    /\ reaperPc = "stopped"
    /\ expiration_chan = 0
    /\ ~ClockOut


(***************************************************************************)
(* The end of a connection: the client sends nothing or SET k a, then      *)
(* nothing more or the first bytes of a frame, and closes or stays silent. *)
(***************************************************************************)
\* the first bytes of a frame
CutFrames ==
    << <<>>,
       <<"+", "O", "K">>,
       <<"$", "3", CR, LF, "a", "b">>,
       <<"*", "1", CR, LF, "$", "3", CR, LF, "a">> >>

InitConnEnd ==
    /\ reqs \in {<<>>, <<SetKA>>}
    /\ \E b \in 1..Len(CutFrames) : toSend = WriteFrames(reqs) \o CutFrames[b]
    /\ wire = <<>>
    /\ peerClosed = FALSE
    /\ buffer = <<>>
    /\ connPc = "parse"
    /\ request = NoFrame
    /\ handled = <<>>
    /\ written = <<>>
    /\ kvAtRead = <<EmptyMap, {}>>

InitEnd == InitDb /\ InitSrvServing /\ InitConnEnd

NextEnd ==
    \/ \E n \in {1, Len(toSend)} : ClientSend(n)
    \/ ClientClose
    \/ ConnParse
    \/ ConnRecv
    \/ ConnTimeout
    \/ Executing("Set") /\ SetBegin(ConnTask, TheCommand.key, TheCommand.val,
                                    TheCommand.expiration)
    \/ SetCommit(ConnTask)
    \/ \E ok \in BOOLEAN : ConnWrite(ok)
    \/ ConnExit

SpecEnd == InitEnd /\ [][NextEnd]_vars

\* what handle_client_connection returns when it leaves its loop
ExitResult(pc) ==
    CASE pc \in {"closed", "timed_out"} -> "Ok"
      [] pc \in {"read_error", "write_error"} -> "Err"
      [] OTHER -> "none"

\* read_buf returns 0: the end of the stream
C27_EofStep ==
    (connPc = "recv" /\ wire = <<>> /\ peerClosed /\ connPc' # connPc) =>
        /\ buffer = <<>> => connPc' = "closed"
        /\ buffer # <<>> => connPc' = "read_error"
        /\ written' = written

\* the task after a clean end of stream or the idle timeout
C27_QuietEnd ==
    (connPc \in {"closed", "timed_out"} /\ connPc' # connPc) =>
        /\ ExitResult(connPc) = "Ok"
        /\ connPc' = "ended"
        /\ written' = written
        /\ data' = data

\* C27: when the peer closes, read_frame reports a clean end of stream if
\* and only if the read buffer is empty, and fails (connection reset) when
\* bytes of an unfinished frame are left; after a clean end of stream, and
\* after the idle timeout, the task ends without error and writes nothing.
C27_EndOfStream ==
    /\ [][C27_EofStep /\ C27_QuietEnd]_vars
    /\ [](connPc = "closed" => (buffer = <<>> /\ peerClosed))
    /\ [](connPc = "read_error" /\ peerClosed /\ wire = <<>>
            /\ ParseFrame(buffer).tag = "Ok" => buffer # <<>>)

C27_Witness ==
    /\ connPc = "closed"
    /\ Len(written) = 1
    /\ toSend = <<>>


(***************************************************************************)
(* Clients on disjoint keys (tests/server.rs, concurrent_clients): each    *)
(* client SETs and GETs a key of its own, without expiration, and asks for *)
(* DBSIZE, while the other does the same and the expiration task runs.     *)
(***************************************************************************)
\* the key of client c
KeyOf(c) == IF c = 1 THEN KeyK ELSE KeyJ

NextOwnKeys ==
    \/ \E c \in DbClients :
        /\ nops + Cardinality({t \in Tasks : cpc[t] # "idle"}) < MaxOwnOps
        /\ \/ \E v \in DbVals : SetBegin(c, KeyOf(c), v, None)
           \/ Get(c, KeyOf(c))
           \/ DBSize(c)
    \/ \E c \in DbClients : SetCommit(c)
    \/ ReaperPop
    \/ ReaperRemove
    \/ Tick

SpecOwnKeys == Init /\ [][NextOwnKeys]_vars

\* the keys on which a SET has completed
KeysSet == {k \in AllKeys : lastWrite[k].kind = "set"}

\* GET by a client replies the value of its last completed SET
C28_GetStep ==
    \A c \in DbClients :
        (nops' = nops + 1 /\ cres'.task = c /\ cres'.cmd.name = "Get") =>
            IF KeyOf(c) \in KeysSet
            THEN SameFrame(cres'.frame, Bulk(lastWrite[KeyOf(c)].val))
            ELSE SameFrame(cres'.frame, Null)

\* DBSIZE, no command being in progress, replies the number of keys set
C28_SizeStep ==
    (nops' = nops + 1 /\ cres'.cmd.name = "DBSize"
        /\ \A t \in Tasks : cpc[t] = "idle") =>
            SameFrame(cres'.frame, Integer(I64(Cardinality(KeysSet))))

\* C28: clients working on pairwise disjoint keys without expiration: under
\* every interleaving the GET k of a client after its own SET k v replies
\* v, and when the clients have finished DBSIZE is the number of distinct
\* keys that were set.
C28_DisjointKeysDoNotInterfere ==
    /\ [][C28_GetStep /\ C28_SizeStep]_vars
    /\ [](\A k \in KeysSet : k \in DOMAIN data /\ data[k].value = lastWrite[k].val)

C28_Witness ==
    /\ cres.task = 2
    /\ cres.cmd.name = "Get"
    /\ cres.frame.type = "Bulk"
    /\ DOMAIN data = AllKeys
    /\ nops = MaxOwnOps


(***************************************************************************)
(* LOLWUT (SpecConn).                                                      *)
(***************************************************************************)
LolwutFrame == Simple(<<"https://youtu.be/dQw4w9WgXcQ?si=9GzI0HV44IG4_rPi">>)

C29_LolwutStep ==
    (nops' = nops + 1 /\ cres'.cmd.name = "Lolwut") =>
        EqualFrames(cres'.frame, Array(Append(cres'.cmd.frames, LolwutFrame)))

\* C29: LOLWUT a1 .. an (n >= 1, frames of any kind) replies the array
\* (a1, .., an, Simple(the fixed string)): every argument, in order, then
\* the fixed frame.
C29_LolwutAppendsToArguments == [][C29_LolwutStep]_vars


(***************************************************************************)
(* What the sweep removes (Spec).                                          *)
(***************************************************************************)
\* the expiration task, under the map lock, removes the keys it popped
C30_SweepStep ==
    (reaperPc = "lockd" /\ reaperPc' = "sleep") =>
        /\ \A k \in DOMAIN data \ DOMAIN data' :
              /\ k \in expired_keys
              /\ IsSome(data[k].expiration)
              /\ Unwrap(data[k].expiration) <= now
        /\ \A k \in DOMAIN data' : data'[k] = data[k]

\* C30: the expiration task removes a key only if the key is still in the
\* map and its current deadline is the deadline of the entry popped for it
\* (a deadline that has passed, then); an entry whose key was deleted,
\* overwritten, or given another deadline or none, is dropped and the map
\* is left as it is.
C30_SweepRemovesOnlyDueKeys == [][C30_SweepStep]_vars


(***************************************************************************)
(* The two mutexes of DB (src/src/db.rs): `data` guards the map and        *)
(* `expiration_queue` the heap.  Which task holds a mutex is read from     *)
(* where the task is: a lock().await is a step of its own, taken only      *)
(* while the mutex is free, and the guard is held until it is dropped.     *)
(* An operation that takes one mutex, works and drops it is one step.      *)
(***************************************************************************)
\* the expiration task without drop(queue): the guard lives to the end of
\* the loop body
ReaperKeepsQueue == reaperPc \in {"queue", "lockd", "data"}

\* the expiration task between expiration_queue.lock() and drop(queue)
ReaperHoldsQueue == reaperPc = "queue"
\* the expiration task between data.lock() and drop(data_store)
ReaperHoldsData == reaperPc = "data"

\* DB::set, DB::expire: `data_store` lives to the end of the function
ClientHoldsData(c) ==
    cpc[c] \in {"set_data", "set_queue", "expire_data", "expire_queue"}
\* DB::set, DB::expire: `queue` lives to the end of the `if let` block
ClientHoldsQueue(c) == cpc[c] \in {"set_queue", "expire_queue"}

DataFree == ~ReaperHoldsData /\ \A c \in DbClients : ~ClientHoldsData(c)
QueueFree == ~ReaperHoldsQueue /\ \A c \in DbClients : ~ClientHoldsQueue(c)

\* DB::set: self.data.lock().await, then the insert
SetLockData(c) ==
    /\ cpc[c] = "set"
    /\ DataFree
    /\ LET key == cloc[c].cmd.key
           value == cloc[c].cmd.val
           expiration_time == cloc[c].expiration_time
       IN  /\ data' = DbSetData(data, key, value, expiration_time)
           /\ lastWrite' = [lastWrite EXCEPT ![key] = SetWrite(value, expiration_time)]
           /\ sweepSets' = IF reaperPc \in {"lockd", "data"} THEN sweepSets \cup {key}
                           ELSE sweepSets
    /\ cpc' = [cpc EXCEPT ![c] = "set_data"]
    /\ UNCHANGED <<expiration_queue, now, reaperPc, expired_keys, nextTick,
                   expiration_chan, cloc, cres, nops, incrReplies,
                   srvvars, connvars>>

\* DB::set that hands the reply over while it holds both mutexes
SetLockQueueAnswering(c) ==
    /\ cpc[c] = "set_data"
    /\ IsSome(cloc[c].expiration_time)
    /\ QueueFree
    /\ expiration_queue' =
           DbSetQueue(expiration_queue, cloc[c].cmd.key, cloc[c].expiration_time)
    /\ cpc' = [cpc EXCEPT ![c] = "set_queue"]
    /\ cres' = [task |-> c, cmd |-> cloc[c].cmd, frame |-> Simple(<<"OK">>)]
    /\ UNCHANGED <<data, now, reaperPc, expired_keys, nextTick, expiration_chan,
                   cloc, nops, lastWrite, sweepSets, incrReplies,
                   srvvars, connvars>>

\* DB::set with Some(expire): self.expiration_queue.lock().await while
\* `data_store` is held, then the push
SetLockQueue(c) ==
    /\ cpc[c] = "set_data"
    /\ IsSome(cloc[c].expiration_time)
    /\ QueueFree
    /\ expiration_queue' =
           DbSetQueue(expiration_queue, cloc[c].cmd.key, cloc[c].expiration_time)
    /\ cpc' = [cpc EXCEPT ![c] = "set_queue"]
    /\ UNCHANGED <<data, now, reaperPc, expired_keys, nextTick, expiration_chan,
                   cloc, cres, nops, lastWrite, sweepSets, incrReplies,
                   srvvars, connvars>>

\* DB::set returns: the guards are dropped
SetReturn(c) ==
    /\ \/ cpc[c] = "set_queue"
       \/ cpc[c] = "set_data" /\ cloc[c].expiration_time = None
    /\ Done(c, cloc[c].cmd, Simple(<<"OK">>))
    /\ UNCHANGED <<data, expiration_queue, now, reaperPc, expired_keys,
                   nextTick, expiration_chan, lastWrite, sweepSets, incrReplies,
                   srvvars, connvars>>

\* DB::expire: self.data.lock().await, then the deadline of the item
ExpireLockData(c, key, seconds) ==
    /\ cpc[c] = "idle"
    /\ DataFree
    /\ data' = DbExpireData(data, key, FromSecs(seconds), now)
    /\ cpc' = [cpc EXCEPT ![c] = "expire_data"]
    /\ cloc' = [cloc EXCEPT ![c] =
                   [NoLocals EXCEPT !.cmd = CmdExpire(key, seconds),
                                    !.expiration_time =
                                        IF DbExpireOk(data, key)
                                        THEN Some(now + FromSecs(seconds))
                                        ELSE None]]
    /\ lastWrite' = [lastWrite EXCEPT ![key] =
                         IF DbExpireOk(data, key)
                         THEN ExpireWrite(Some(now + FromSecs(seconds)))
                         ELSE OtherWrite]
    /\ UNCHANGED <<expiration_queue, now, reaperPc, expired_keys, nextTick,
                   expiration_chan, cres, nops, sweepSets, incrReplies,
                   srvvars, connvars>>

\* DB::expire on a key of the map: self.expiration_queue.lock().await while
\* `data_store` is held, then the push
ExpireLockQueue(c) ==
    /\ cpc[c] = "expire_data"
    /\ IsSome(cloc[c].expiration_time)
    /\ QueueFree
    /\ expiration_queue' =
           QueuePush(expiration_queue, cloc[c].cmd.key, Unwrap(cloc[c].expiration_time))
    /\ cpc' = [cpc EXCEPT ![c] = "expire_queue"]
    /\ UNCHANGED <<data, now, reaperPc, expired_keys, nextTick, expiration_chan,
                   cloc, cres, nops, lastWrite, sweepSets, incrReplies,
                   srvvars, connvars>>

\* DB::expire returns true or false: the guards are dropped
ExpireReturn(c) ==
    /\ \/ cpc[c] = "expire_queue"
       \/ cpc[c] = "expire_data" /\ cloc[c].expiration_time = None
    /\ Done(c, cloc[c].cmd,
            IF cpc[c] = "expire_queue" THEN Integer(I64(1)) ELSE Integer(I64(0)))
    /\ UNCHANGED <<data, expiration_queue, now, reaperPc, expired_keys,
                   nextTick, expiration_chan, lastWrite, sweepSets, incrReplies,
                   srvvars, connvars>>

\* interval.tick() fires and receiver.try_recv() finds nothing
SweepTick ==
    /\ reaperPc = "sleep"
    /\ now >= nextTick
    /\ expiration_chan = 0
    /\ nextTick' = now + DB_EXPIRATION_CHECK_INTERVAL
    /\ reaperPc' = "tick"
    /\ UNCHANGED <<data, expiration_queue, now, expired_keys, expiration_chan,
                   cpc, cloc, cres, nops, lastWrite, sweepSets, incrReplies,
                   srvvars, connvars>>

\* expiration_queue.lock().await
SweepLockQueue ==
    /\ reaperPc = "tick"
    /\ QueueFree
    /\ reaperPc' = "queue"
    /\ UNCHANGED <<data, expiration_queue, now, expired_keys, nextTick,
                   expiration_chan, cpc, cloc, cres, nops, lastWrite, sweepSets,
                   incrReplies, srvvars, connvars>>

\* the expired entries are popped; drop(queue)
SweepPop ==
    /\ reaperPc = "queue"
    /\ expired_keys' = {e.key : e \in ExpiredEntries(expiration_queue, now)}
    /\ expiration_queue' = expiration_queue \ ExpiredEntries(expiration_queue, now)
    /\ reaperPc' = "lockd"
    /\ sweepSets' = {}
    /\ UNCHANGED <<data, now, nextTick, expiration_chan, cpc, cloc, cres, nops,
                   lastWrite, incrReplies, srvvars, connvars>>

\* data.lock().await
SweepLockData ==
    /\ reaperPc = "lockd"
    /\ DataFree
    /\ reaperPc' = "data"
    /\ UNCHANGED <<data, expiration_queue, now, expired_keys, nextTick,
                   expiration_chan, cpc, cloc, cres, nops, lastWrite, sweepSets,
                   incrReplies, srvvars, connvars>>

\* the popped keys are removed; drop(data_store)
SweepRemove ==
    /\ reaperPc = "data"
    /\ data' = [x \in DOMAIN data \ SweepRemoves(data, expired_keys) |-> data[x]]
    /\ expired_keys' = {}
    /\ reaperPc' = "sleep"
    /\ UNCHANGED <<expiration_queue, now, nextTick, expiration_chan, cpc, cloc,
                   cres, nops, lastWrite, sweepSets, incrReplies,
                   srvvars, connvars>>

\* the operations that take `data` alone, and the first lock of DB::remove
DataOp(c, key) ==
    /\ DataFree
    /\ \/ Get(c, key)
       \/ Del(c, <<key>>)
       \/ FlushDB(c)
       \/ Increment(c, key, FALSE)
       \/ TTL(c, key)
       \/ Keys(c, <<"*">>)
       \/ DBSize(c)

\* a client goes on with the operation it has begun
ClientStep(c) ==
    \/ SetLockData(c)
    \/ SetLockQueue(c)
    \/ SetReturn(c)
    \/ ExpireLockQueue(c)
    \/ ExpireReturn(c)
    \/ QueueFree /\ RemoveQueue(c)

\* the expiration task goes on with its loop
SweepStep ==
    \/ SweepTick
    \/ SweepLockQueue
    \/ SweepPop
    \/ SweepLockData
    \/ SweepRemove

NextLocks ==
    \/ \E c \in DbClients, key \in DbKeys :
        /\ nops + Cardinality({t \in Tasks : cpc[t] # "idle"}) < MaxLockOps
        /\ \/ DataOp(c, key)
           \/ \E d \in {None, Some(DB_EXPIRATION_CHECK_INTERVAL)} :
                 SetBegin(c, key, <<"1">>, d)
           \/ ExpireLockData(c, key, 0)
    \/ \E c \in DbClients : ClientStep(c)
    \/ SweepStep
    \/ Tick

\* where the tasks and the clock are: every step of a task moves one of them
taskpcs == <<cpc, reaperPc, now>>

\* Every task is scheduled again and again, and tokio's Mutex hands the lock
\* to its waiters in the order they asked: a task that waits for a mutex
\* gets it once the mutex has been free often enough.
SpecLocks ==
    /\ Init
    /\ [][NextLocks]_vars
    /\ WF_taskpcs(Tick)
    /\ SF_taskpcs(SweepStep)
    /\ \A c \in DbClients : SF_taskpcs(ClientStep(c))

\* C31: the map and the heap have a mutex each, and an operation that needs
\* both takes the one of the heap first: no task takes the mutex of the heap
\* while it holds the one of the map.
C31_HeapLockedBeforeMap ==
    [][\A c \in DbClients :
          (ClientHoldsQueue(c)' /\ ~ClientHoldsQueue(c)) => ~ClientHoldsData(c)]_vars


(***************************************************************************)
(* One connection and the two mutexes: the commands in sequence as above,  *)
(* the steps of DB::set, DB::expire and of the expiration task being the   *)
(* ones of the mutexes.  The task reads its socket in ReadFrame and writes *)
(* it in Respond.                                                          *)
(***************************************************************************)
\* the commands of the scenario: the ones whose operation takes both
\* mutexes, one after the other or one inside the other, and one that takes
\* the mutex of the map alone
LockCommands == {"Set", "Expire", "Del", "TTL"}

LockRequests ==
    {i \in 1..Len(CmdRequests) :
        FromFrame(CmdRequests[i]).ok
        /\ FromFrame(CmdRequests[i]).cmd.name \in LockCommands}

NextConnLocks ==
    \/ \E i \in LockRequests : ReadFrame(i)
    \/ Executing("Set") /\ SetBegin(ConnTask, TheCommand.key, TheCommand.val,
                                    TheCommand.expiration)
    \/ SetLockData(ConnTask)
    \/ SetLockQueue(ConnTask)
    \/ SetReturn(ConnTask)
    \/ Executing("Expire") /\ ExpireLockData(ConnTask, TheCommand.key,
                                             TheCommand.seconds)
    \/ ExpireLockQueue(ConnTask)
    \/ ExpireReturn(ConnTask)
    \/ Executing("Del") /\ DataFree /\ Del(ConnTask, TheCommand.keys)
    \/ DataFree /\ DelNext(ConnTask)
    \/ QueueFree /\ RemoveQueue(ConnTask)
    \/ Executing("TTL") /\ DataFree /\ TTL(ConnTask, TheCommand.key)
    \/ Respond
    \/ SweepTick
    \/ SweepLockQueue
    \/ SweepPop
    \/ SweepLockData
    \/ SweepRemove
    \/ Tick

SpecConnLocks == InitCmd /\ [][NextConnLocks]_vars

\* the connection task holds neither mutex
HoldsNoLock == ~ClientHoldsData(ConnTask) /\ ~ClientHoldsQueue(ConnTask)

\* C32: a step in which the connection task reads or writes its socket is
\* taken while the task holds no mutex of the keyspace, and leaves it holding
\* none
C32_SocketStep ==
    connPc' # connPc => HoldsNoLock /\ HoldsNoLock'

C35_EveryOperationCompletes ==
    /\ \A c \in DbClients : (cpc[c] # "idle") ~> (cpc[c] = "idle")
    /\ (reaperPc \in {"tick", "queue", "lockd", "data"}) ~> (reaperPc = "sleep")

\* a SET holds the mutex of the map and waits for the one of the heap, which
\* the expiration task holds, while another SET waits for the mutex of the map
C35_Witness ==
    /\ cpc[1] = "set_data"
    /\ IsSome(cloc[1].expiration_time)
    /\ reaperPc = "queue"
    /\ cpc[2] = "set"


(***************************************************************************)
(* A burst of connections: MAX_CLIENTS + MaxBurst clients connect, and the *)
(* accept loop takes them as they come, whether or not the tasks it has    *)
(* spawned have been polled yet.                                           *)
(***************************************************************************)
NextBurst ==
    \/ Run
    \/ AcceptSpawn(MAX_CLIENTS + MaxBurst)
    \/ AcceptReject(MAX_CLIENTS + MaxBurst)
    \/ \E ok \in BOOLEAN : RejectWrite(ok)
    \/ \E ok \in BOOLEAN : RejectShutdown(ok)
    \/ \E r \in Receivers : TaskStart(r)
    \/ \E r \in Receivers : TaskExit(r)

SpecBurst == Init /\ [][NextBurst]_vars

\* C33: the connections served at the same time, those whose task has
\* started and not ended, are never more than MAX_CLIENTS + 1.
C33_ServedAtMostOneOverLimit ==
    Count(serving) <= MAX_CLIENTS + 1


(***************************************************************************)
(* The shutdown scenario with its scheduling: run() goes on once it has    *)
(* left its loop (each wait of RedisServer::shutdown is bounded, by the    *)
(* free slot of the channel and by SERVER_SHUTDOWN_CONNECTION_TIMEOUT),    *)
(* the expiration task is scheduled and its interval fires.  Nothing is    *)
(* assumed of the connection tasks.                                        *)
(***************************************************************************)
SpecDrain ==
    /\ Init
    /\ [][NextShutdown]_vars
    /\ WF_vars(DbShutdown)
    /\ WF_vars(DrainHandle)
    /\ WF_vars(RunReturn)
    /\ WF_vars(Tick)
    /\ WF_vars(ReaperPop)
    /\ WF_vars(ReaperRemove)
    /\ WF_vars(ReaperStop)

\* run() has left its accept loop
ShutdownStarted == srvPc \in {"db_shutdown", "drain", "returned"}
\* self.db.shutdown().await has returned
DbShutdownReturned == srvPc \in {"drain", "returned"}

\* C34: once run() has left its loop no connection is accepted and no task
\* spawned; once DB::shutdown has returned the expiration task starts no
\* sweep
C34_ShutdownStep ==
    /\ ShutdownStarted =>
          /\ ShutdownStarted'
          /\ accepted' = accepted
          /\ Count(spawned)' <= Count(spawned)
    /\ DbShutdownReturned => ~(reaperPc = "sleep" /\ reaperPc' = "lockd")

\* C34: once the shutdown has started the accept loop accepts no further
\* connection, the expiration task starts no sweep after DB::shutdown has
\* returned and stops at its next tick, and run() returns after giving each
\* handle its bounded wait, whether or not the connection tasks have ended.
C34_ShutdownSequence ==
    /\ [][C34_ShutdownStep]_vars
    /\ ShutdownStarted ~> (srvPc = "returned")
    /\ DbShutdownReturned ~> (reaperPc = "stopped" \/ ClockOut)

\* run() has returned while a connection task is still running, and the
\* expiration task has stopped
C34_Witness ==
    /\ srvPc = "returned"
    /\ Count(serving) > 0
    /\ reaperPc = "stopped"
    /\ ~ClockOut


(***************************************************************************)
(* Properties of the keyspace under concurrent clients (Spec), continued.  *)
(***************************************************************************)
\* C36: every key of the map with a deadline d has the entry (key, d) in the
\* heap, or the sweep has popped an entry of the key and is about to remove
\* the key from the map: no entry with a deadline is left for DBSIZE to
\* count forever.
C36_DeadlineKeysAreInHeap ==
    \A k \in DOMAIN data :
        IsSome(data[k].expiration) =>
            \/ ExpirationEntry(k, Unwrap(data[k].expiration)) \in expiration_queue
            \/ reaperPc = "lockd" /\ k \in expired_keys


(***************************************************************************)
(* Properties of the commands in sequence (SpecCmd), continued.            *)
(***************************************************************************)
\* the map holds the key and its deadline has passed
ExpiredUnreaped(d, k, t) ==
    k \in DOMAIN d /\ ~NotExpired(d[k], t)

\* C37: an EXPIRE on a key whose deadline has passed and which the
\* expiration task has not removed yet replies 0, and GET does not find
\* the key afterwards
C37_ExpireStep ==
    (/\ nops' = nops + 1
     /\ cres'.cmd.name = "Expire"
     /\ ExpiredUnreaped(data, cres'.cmd.key, now))
    => /\ SameFrame(cres'.frame, Integer(I64(0)))
       /\ DbGet(data', cres'.cmd.key, now') = None

\* C37: once the deadline of a key has passed its value is not observable
\* again unless a SET or an INCR writes the key: EXPIRE on the expired entry
\* replies 0 and does not bring the old value back.
C37_ExpireLeavesExpiredKeyAbsent == [][C37_ExpireStep]_vars


(***************************************************************************)
(* Properties of the frames read from the bytes of the client (SpecCodec), *)
(* continued.                                                              *)
(***************************************************************************)
\* C38: whenever Frame::is_parsable returns Ok on the read buffer,
\* Frame::parse from the same position returns a frame or a protocol error,
\* and a frame it returns ends where is_parsable ended.
C38_ProbeAndDecodeAgree ==
    IsParsable(buffer, 0).tag = "Ok" =>
        /\ Parse(buffer, 0).tag \in {"Ok", "Err"}
        /\ Parse(buffer, 0).tag = "Ok" => Parse(buffer, 0).pos = IsParsable(buffer, 0).pos


(***************************************************************************)
(* One connection and the shutdown signal: the connection of SpecConn, the *)
(* signal being sent at any moment.  The receiver of the task was created  *)
(* before any send.                                                        *)
(***************************************************************************)
\* a select put around the whole body of the loop: the signal is taken at
\* any await of the task
ConnShutdownAtAnyAwait ==
    /\ connPc \in {"parse", "recv", "frame"}
    /\ RecvReady(0)
    /\ connPc' = "shut_down"
    /\ serving' = [serving EXCEPT ![0] = @ - 1]
    /\ client_count' = client_count - 1
    /\ UNCHANGED <<srvPc, sent, mainRx, spawned, accepted, handles, cur,
                   reqs, toSend, wire, peerClosed, buffer, request, handled,
                   written, kvAtRead, dbvars>>

\* the shutdown branch of the select, taken while conn.read_frame() is
\* pending or ready: break Ok(()), the guard is dropped
ConnShutdown ==
    /\ connPc \in {"parse", "recv"}
    /\ RecvReady(0)
    /\ connPc' = "shut_down"
    /\ serving' = [serving EXCEPT ![0] = @ - 1]
    /\ client_count' = client_count - 1
    /\ UNCHANGED <<srvPc, sent, mainRx, spawned, accepted, handles, cur,
                   reqs, toSend, wire, peerClosed, buffer, request, handled,
                   written, kvAtRead, dbvars>>

\* timeout(TIMEOUT_DURATION, conn.write_frame(&response)) elapses, the peer
\* not reading: break Ok(())
ConnWriteTimeout ==
    /\ connPc = "frame"
    /\ cres # NoReply
    /\ cpc[ConnTask] = "idle"
    /\ ~peerClosed
    /\ connPc' = "timed_out"
    /\ UNCHANGED <<reqs, toSend, wire, peerClosed, buffer, request, handled,
                   written, kvAtRead, dbvars, srvvars>>

NextConnShutdown ==
    \/ ClientSend(Len(toSend))
    \/ ClientClose
    \/ ConnParse
    \/ ConnRecv
    \/ FromFrameError
    \/ Executing("Get") /\ Get(ConnTask, TheCommand.key)
    \/ Executing("Set") /\ SetBegin(ConnTask, TheCommand.key, TheCommand.val,
                                    TheCommand.expiration)
    \/ SetCommit(ConnTask)
    \/ Executing("Ping") /\ Ping(ConnTask, TheCommand.msg)
    \/ Executing("Increment") /\ Increment(ConnTask, TheCommand.key, FALSE)
    \/ Executing("FlushDB") /\ FlushDB(ConnTask)
    \/ Executing("Del") /\ Del(ConnTask, TheCommand.keys)
    \/ RemoveQueue(ConnTask)
    \/ Executing("Exists") /\ Exists(ConnTask, TheCommand.keys)
    \/ Executing("DBSize") /\ DBSize(ConnTask)
    \/ Executing("Unknown") /\ Unknown(ConnTask, TheCommand.key)
    \/ Executing("Lolwut") /\ Lolwut(ConnTask, TheCommand.frames)
    \/ Executing("Expire") /\ Expire(ConnTask, TheCommand.key, TheCommand.seconds)
    \/ Executing("TTL") /\ TTL(ConnTask, TheCommand.key)
    \/ \E ok \in BOOLEAN : ConnWrite(ok)
    \/ Signal
    \/ ConnShutdown
    \/ ConnWriteTimeout
    \/ ConnExit

SpecConnShutdown == InitServed /\ [][NextConnShutdown]_vars

\* C39: the task that ends on the shutdown signal has written a response
\* for every request it has read, and is in the middle of no command
C39_NoRequestLeftUnanswered ==
    connPc = "shut_down" =>
        /\ Len(written) = Len(handled)
        /\ cpc[ConnTask] = "idle"

\* C39: the shutdown signal is acted on between requests only: the step that
\* ends the task on the signal is taken from conn.read_frame(), never
\* between the execution of a command and the write of its response.
C39_SignalTakenBetweenRequests ==
    /\ [](C39_NoRequestLeftUnanswered)
    /\ [][connPc' = "shut_down" /\ connPc # "shut_down" =>
            connPc \in {"parse", "recv"} /\ Len(written) = Len(handled)]_vars

\* the task has answered a request, and ends on a signal sent after the
\* request was read
C39_Witness ==
    /\ connPc = "shut_down"
    /\ Len(written) >= 1
    /\ Len(handled) = Len(written)
    /\ buffer # <<>>


(***************************************************************************)
(* Concurrent DELs of one key: what each replies against what it removed.  *)
(***************************************************************************)
\* the entries that leave the map in a step
EntriesRemoved == Cardinality(DOMAIN data \ DOMAIN data')

\* a DEL of client c goes through the first half of DB::remove
DelRemoves(c) == cpc[c] # "remove_queue" /\ cpc'[c] = "remove_queue"

\* a DEL of client c makes its reply
DelReplies(c) == cpc[c] = "remove_queue" /\ cpc'[c] = "idle"

C40_DelStep ==
    \A c \in DbClients :
        /\ DelRemoves(c) =>
              /\ EntriesRemoved = (IF cloc'[c].removed THEN 1 ELSE 0)
              /\ cloc'[c].removed <=> cloc'[c].cmd.keys[cloc'[c].i] \in DOMAIN data
              /\ cloc'[c].cmd.keys[cloc'[c].i] \notin DOMAIN data'
        /\ DelReplies(c) =>
              /\ EntriesRemoved = 0
              /\ cres'.task = c
              /\ cres'.frame =
                    Integer(I64(cloc[c].count + (IF cloc[c].removed THEN 1 ELSE 0)))

\* C40: over any interleaving with SETs and other DELs, a DEL counts a key
\* exactly when its own call of DB::remove took the entry out of the map, so
\* the integers replied by the DELs add up to the entries those DELs removed;
\* of two DELs of one key with no SET in between, one counts it and the
\* other does not.
C40_DelCountsItsOwnRemovals == [][C40_DelStep]_vars

\* two DELs of the same key are both between the two locks of DB::remove,
\* one found the entry and the other did not
C40_Witness ==
    /\ cpc[1] = "remove_queue"
    /\ cpc[2] = "remove_queue"
    /\ cloc[1].cmd.keys = cloc[2].cmd.keys
    /\ cloc[1].removed
    /\ ~cloc[2].removed

=============================================================================
